---- MODULE Spec2Model ----
(***************************************************************************)
(* Tile generation of mappy-map-face, preprocessing/step_3_generate_tiles. *)
(* The orchestrator main() scans the sources, runs one worker per GeoJSON  *)
(* file (process_geojson_to_tiles -> split_geojson_into_tiles) in a pool,  *)
(* writes the tiles of cached databases (write_tiles_from_databases),      *)
(* writes index.json and moves the temporary tile tree to the output path. *)
(*                                                                         *)
(* Coordinates are centidegrees (lon 10.02 = 1002).  A serialized feature  *)
(* (the feature-JSON string) is the record [fid, geom]: the feature of the *)
(* input and the geometry it carries after simplify_feature_for_zoom.      *)
(***************************************************************************)
EXTENDS Integers, Sequences, FiniteSets, TLC

\* ---------------------------------------------------------------- bounds
\* Number of source regions of a run.
NumSources == 2
\* Features one worker reads from its GeoJSON stream.
MaxFeatures == 2
\* BATCH_SIZE of split_geojson_into_tiles, scaled down from 50000 rows.
BATCH_SIZE == 3

Sources == 1..NumSources

\* ------------------------------------------------------ program constants
\* parser default of --jobs
DefaultJobs == 3
\* parser default of --zoom-levels
DefaultZoomLevels == <<3, 5, 8, 11, 14>>

LOD_0_ZOOMS == <<3, 5, 8, 11, 14>>
LOD_1_ZOOMS == <<8, 11, 14>>
LOD_2_ZOOMS == <<11, 14>>
LOD_3_ZOOMS == <<14>>
LOD_4_ZOOMS == <<14>>

MAJOR_RAIL == {"rail"}
MEDIUM_RAIL == {"light_rail", "subway"}
MINOR_RAIL == {"tram", "monorail", "narrow_gauge", "preserved"}
ALL_RAIL_TYPES ==
    {"rail", "light_rail", "subway", "tram", "monorail", "narrow_gauge", "preserved"}
POLYGON_TYPES == {"Polygon", "MultiPolygon"}
MAJOR_HIGHWAYS == {"motorway", "trunk", "primary"}
SECONDARY_HIGHWAYS == {"secondary"}
TERTIARY_RESIDENTIAL_HIGHWAYS == {"tertiary", "residential", "unclassified"}
PARK_LANDUSE == {"grass", "meadow", "village_green", "recreation_ground"}
FARM_LANDUSE ==
    {"farmland", "orchard", "vineyard", "farmyard", "greenhouse_horticulture",
     "plant_nursery"}
COMMERCIAL_LANDUSE == {"commercial", "retail"}
CEMETERY_LANDUSE == {"cemetery"}
RAILWAY_LANDUSE == {"railway"}
CONSTRUCTION_LANDUSE == {"construction", "brownfield", "greenfield"}
MILITARY_LANDUSE == {"military"}
EDUCATION_LANDUSE == {"education"}
RELIGIOUS_LANDUSE == {"religious"}
ALLOTMENT_LANDUSE == {"allotments"}
WATER_LANDUSE == {"basin", "reservoir"}
QUARRY_LANDUSE == {"quarry", "landfill"}
MAJOR_WATERWAYS == {"river", "canal"}

\* ------------------------------------------------------------- helpers
\* Python's None (dict.get of an absent key, a function returning nothing).
None == "<None>"

\* props.get(key)
Get(props, key) == IF key \in DOMAIN props THEN props[key] ELSE None

\* Python truthiness of a tag value: neither None nor the empty string.
Truthy(v) == v # None /\ v # ""

Max(a, b) == IF a >= b THEN a ELSE b

Pow2(n) == 2 ^ n

SeqToSet(s) == {s[i] : i \in 1..Len(s)}

\* ------------------------------------------------------ tile coordinates
\* lon_to_tile_x: int((lon + 180.0) / 360.0 * 2**zoom), lon in centidegrees.
lon_to_tile_x(lon, zoom) == ((lon + 18000) * Pow2(zoom)) \div 36000

\* (1 - asinh(tan(lat)) / pi) / 2, scaled by 2**20 and truncated, for the
\* latitudes (centidegrees) of the modelled features.
MercatorFraction(lat) ==
    CASE lat = 5354 -> 338945
      [] lat = 5355 -> 338896
      [] lat = 5356 -> 338847
      [] lat = 5357 -> 338798
      [] lat = 5358 -> 338749

\* lat_to_tile_y: int((1 - asinh(tan(lat_rad)) / pi) / 2 * 2**zoom)
lat_to_tile_y(lat, zoom) == MercatorFraction(lat) \div Pow2(20 - zoom)

\* ------------------------------------------------------------ the input
\* A "geometry": null member of a feature.
NullGeometry ==
    [type |-> None, ncoords |-> 0, minLon |-> 0, maxLon |-> 0, minLat |-> 0, maxLat |-> 0]

\* The features a GeoJSON stream can deliver; ncoords is
\* count_coordinates(geometry).
Catalog == <<
    \* 1: residential road crossing a tile boundary at zoom 11 and 14
    [props |-> [highway |-> "residential", name |-> "Ring"],
     geometry |-> [type |-> "LineString", ncoords |-> 5,
                   minLon |-> 1001, maxLon |-> 1002, minLat |-> 5356, maxLat |-> 5356]],
    \* 2: footpath crossing a tile boundary at zoom 14
    [props |-> [highway |-> "footway"],
     geometry |-> [type |-> "LineString", ncoords |-> 2,
                   minLon |-> 1001, maxLon |-> 1002, minLat |-> 5356, maxLat |-> 5356]],
    \* 3: named cafe
    [props |-> [name |-> "Cafe", amenity |-> "cafe"],
     geometry |-> [type |-> "Point", ncoords |-> 1,
                   minLon |-> 1001, maxLon |-> 1001, minLat |-> 5356, maxLat |-> 5356]],
    \* 4: stream
    [props |-> [waterway |-> "stream"],
     geometry |-> [type |-> "LineString", ncoords |-> 6,
                   minLon |-> 1003, maxLon |-> 1003, minLat |-> 5356, maxLat |-> 5356]],
    \* 5: unnamed point without tags of interest
    [props |-> [note |-> "x"],
     geometry |-> [type |-> "Point", ncoords |-> 1,
                   minLon |-> 1000, maxLon |-> 1000, minLat |-> 5356, maxLat |-> 5356]],
    \* 6: road whose geometry is null
    [props |-> [highway |-> "residential"],
     geometry |-> NullGeometry],
    \* 7: building
    [props |-> [building |-> "yes"],
     geometry |-> [type |-> "Polygon", ncoords |-> 5,
                   minLon |-> 1001, maxLon |-> 1001, minLat |-> 5356, maxLat |-> 5356]],
    \* 8: city label
    [props |-> [place |-> "city", name |-> "Hamburg", population |-> "1900000"],
     geometry |-> [type |-> "Point", ncoords |-> 1,
                   minLon |-> 1000, maxLon |-> 1000, minLat |-> 5356, maxLat |-> 5356]],
    \* 9: coastline
    [props |-> [natural |-> "coastline"],
     geometry |-> [type |-> "LineString", ncoords |-> 8,
                   minLon |-> 1002, maxLon |-> 1003, minLat |-> 5356, maxLat |-> 5356]],
    \* 10: forest
    [props |-> [landuse |-> "forest"],
     geometry |-> [type |-> "Polygon", ncoords |-> 9,
                   minLon |-> 1002, maxLon |-> 1004, minLat |-> 5355, maxLat |-> 5357]],
    \* 11: coastline of a small island, one closed clockwise ring
    [props |-> [natural |-> "coastline"],
     geometry |-> [type |-> "LineString", ncoords |-> 4,
                   minLon |-> 1003, maxLon |-> 1003, minLat |-> 5356, maxLat |-> 5356]],
    \* 12: primary road under construction
    [props |-> [highway |-> "construction", construction |-> "primary"],
     geometry |-> [type |-> "LineString", ncoords |-> 2,
                   minLon |-> 1001, maxLon |-> 1001, minLat |-> 5356, maxLat |-> 5356]],
    \* 13: the same road as highway=primary
    [props |-> [highway |-> "primary", construction |-> "primary"],
     geometry |-> [type |-> "LineString", ncoords |-> 2,
                   minLon |-> 1001, maxLon |-> 1001, minLat |-> 5356, maxLat |-> 5356]],
    \* 14: secondary road under construction
    [props |-> [highway |-> "construction", construction |-> "secondary"],
     geometry |-> [type |-> "LineString", ncoords |-> 2,
                   minLon |-> 1001, maxLon |-> 1001, minLat |-> 5356, maxLat |-> 5356]],
    \* 15: the same road as highway=secondary
    [props |-> [highway |-> "secondary", construction |-> "secondary"],
     geometry |-> [type |-> "LineString", ncoords |-> 2,
                   minLon |-> 1001, maxLon |-> 1001, minLat |-> 5356, maxLat |-> 5356]],
    \* 16: residential road under construction
    [props |-> [highway |-> "construction", construction |-> "residential"],
     geometry |-> [type |-> "LineString", ncoords |-> 2,
                   minLon |-> 1001, maxLon |-> 1001, minLat |-> 5356, maxLat |-> 5356]],
    \* 17: the same road as highway=residential
    [props |-> [highway |-> "residential", construction |-> "residential"],
     geometry |-> [type |-> "LineString", ncoords |-> 2,
                   minLon |-> 1001, maxLon |-> 1001, minLat |-> 5356, maxLat |-> 5356]],
    \* 18: footway road under construction
    [props |-> [highway |-> "construction", construction |-> "footway"],
     geometry |-> [type |-> "LineString", ncoords |-> 2,
                   minLon |-> 1001, maxLon |-> 1001, minLat |-> 5356, maxLat |-> 5356]],
    \* 19: the same road as highway=footway
    [props |-> [highway |-> "footway", construction |-> "footway"],
     geometry |-> [type |-> "LineString", ncoords |-> 2,
                   minLon |-> 1001, maxLon |-> 1001, minLat |-> 5356, maxLat |-> 5356]],
    \* 20: named junction of a primary road under construction
    [props |-> [highway |-> "construction", construction |-> "primary", name |-> "A1"],
     geometry |-> [type |-> "Point", ncoords |-> 1,
                   minLon |-> 1001, maxLon |-> 1001, minLat |-> 5356, maxLat |-> 5356]],
    \* 21: the same junction as highway=primary
    [props |-> [highway |-> "primary", construction |-> "primary", name |-> "A1"],
     geometry |-> [type |-> "Point", ncoords |-> 1,
                   minLon |-> 1001, maxLon |-> 1001, minLat |-> 5356, maxLat |-> 5356]],
    \* 22: road under construction that names no target
    [props |-> [highway |-> "construction"],
     geometry |-> [type |-> "LineString", ncoords |-> 2,
                   minLon |-> 1001, maxLon |-> 1001, minLat |-> 5356, maxLat |-> 5356]],
    \* 23: footpath running diagonally over tile boundaries in both directions
    [props |-> [highway |-> "footway", name |-> "Diagonal"],
     geometry |-> [type |-> "LineString", ncoords |-> 3,
                   minLon |-> 1001, maxLon |-> 1002, minLat |-> 5355, maxLat |-> 5357]]
>>

\* The features of the catalog whose coordinates are one closed clockwise ring.
Islands == {11}

FeatureIds == 1..Len(Catalog)

\* int(population), 0 when the tag is absent or does not parse
PopValue(props) ==
    LET p == Get(props, "population")
    IN  CASE p = "1900000" -> 1900000
          [] p = "60000" -> 60000
          [] p = "6000" -> 6000
          [] OTHER -> 0

\* ------------------------------------------------------- classification
\* get_render_metadata returning None
RenderNone == [layer |-> None, minLOD |-> -1]

\* get_render_metadata: the layer and minLOD of the render block, or RenderNone.
get_render_metadata(props, geom_type) ==
    LET landuse == Get(props, "landuse")
        natural == Get(props, "natural")
        waterway == Get(props, "waterway")
        building == Get(props, "building")
        highway == Get(props, "highway")
        railway == Get(props, "railway")
        leisure == Get(props, "leisure")
        is_polygon == geom_type \in POLYGON_TYPES
        construction == Get(props, "construction")
        effective_highway ==
            IF highway = "construction" /\ Truthy(construction)
            THEN construction ELSE highway
        place_type == Get(props, "place")
        pop_value == PopValue(props)
        placeLOD ==
            CASE place_type = "city" -> 0
              [] place_type = "town" -> IF pop_value >= 50000 THEN 0 ELSE 1
              [] place_type = "village" -> IF pop_value >= 5000 THEN 1 ELSE 2
              [] place_type \in {"suburb", "borough", "quarter"} -> 2
              [] place_type \in {"hamlet", "neighbourhood"} -> 3
              [] place_type \in {"locality", "isolated_dwelling"} -> 4
              [] OTHER -> 3
    IN
    IF (leisure = "park" \/ landuse \in PARK_LANDUSE) /\ is_polygon
        THEN [layer |-> "natural_background", minLOD |-> 1]
    ELSE IF landuse \in FARM_LANDUSE /\ is_polygon
        THEN [layer |-> "natural_background", minLOD |-> 1]
    ELSE IF (landuse = "forest" \/ natural = "wood") /\ is_polygon
        THEN [layer |-> "forests", minLOD |-> 0]
    ELSE IF (natural = "water" \/ Truthy(Get(props, "water")) \/ waterway = "riverbank"
             \/ natural = "coastline" \/ landuse \in WATER_LANDUSE) /\ is_polygon
        THEN [layer |-> "water_areas", minLOD |-> 0]
    ELSE IF Truthy(waterway) /\ waterway # "riverbank"
        THEN [layer |-> "waterways",
              minLOD |-> IF waterway \in MAJOR_WATERWAYS THEN 1 ELSE 2]
    ELSE IF landuse \in CEMETERY_LANDUSE /\ is_polygon
        THEN [layer |-> "landuse_areas", minLOD |-> 1]
    ELSE IF landuse \in ALLOTMENT_LANDUSE /\ is_polygon
        THEN [layer |-> "landuse_areas", minLOD |-> 2]
    ELSE IF landuse \in RAILWAY_LANDUSE /\ is_polygon
        THEN [layer |-> "landuse_areas", minLOD |-> 1]
    ELSE IF landuse \in CONSTRUCTION_LANDUSE /\ is_polygon
        THEN [layer |-> "landuse_areas", minLOD |-> 2]
    ELSE IF landuse \in MILITARY_LANDUSE /\ is_polygon
        THEN [layer |-> "landuse_areas", minLOD |-> 1]
    ELSE IF landuse \in EDUCATION_LANDUSE /\ is_polygon
        THEN [layer |-> "landuse_areas", minLOD |-> 2]
    ELSE IF landuse \in RELIGIOUS_LANDUSE /\ is_polygon
        THEN [layer |-> "landuse_areas", minLOD |-> 2]
    ELSE IF landuse \in QUARRY_LANDUSE /\ is_polygon
        THEN [layer |-> "landuse_areas", minLOD |-> 2]
    ELSE IF landuse = "residential" /\ is_polygon
        THEN [layer |-> "landuse_areas", minLOD |-> 1]
    ELSE IF landuse \in COMMERCIAL_LANDUSE /\ is_polygon
        THEN [layer |-> "landuse_areas", minLOD |-> 1]
    ELSE IF landuse = "industrial" /\ is_polygon
        THEN [layer |-> "landuse_areas", minLOD |-> 1]
    ELSE IF Truthy(building) /\ is_polygon
        THEN [layer |-> "areas", minLOD |-> 2]
    ELSE IF effective_highway \in MAJOR_HIGHWAYS
        THEN [layer |-> "major_roads", minLOD |-> 0]
    ELSE IF effective_highway \in SECONDARY_HIGHWAYS
        THEN [layer |-> "major_roads", minLOD |-> 1]
    ELSE IF effective_highway \in TERTIARY_RESIDENTIAL_HIGHWAYS
        THEN [layer |-> "roads", minLOD |-> 2]
    ELSE IF Truthy(effective_highway)
        THEN [layer |-> "roads", minLOD |-> 3]
    ELSE IF natural = "coastline" /\ ~is_polygon
        THEN [layer |-> "coastline", minLOD |-> 0]
    ELSE IF Get(props, "boundary") = "administrative" /\ Get(props, "admin_level") = "2"
        THEN [layer |-> "boundaries", minLOD |-> 0]
    ELSE IF Truthy(railway) /\ geom_type # "Point" /\ railway \in MAJOR_RAIL
        THEN [layer |-> "railways", minLOD |-> 0]
    ELSE IF Truthy(railway) /\ geom_type # "Point" /\ railway \in MEDIUM_RAIL
        THEN [layer |-> "railways", minLOD |-> 1]
    ELSE IF Truthy(railway) /\ geom_type # "Point" /\ railway \in MINOR_RAIL
        THEN [layer |-> "railways", minLOD |-> 2]
    ELSE IF geom_type = "Point" /\ Truthy(place_type) /\ Truthy(Get(props, "name"))
        THEN [layer |-> "place_labels", minLOD |-> placeLOD]
    ELSE IF geom_type = "Point" /\ Truthy(Get(props, "name"))
            /\ (Truthy(Get(props, "amenity")) \/ Truthy(Get(props, "shop"))
                \/ Truthy(Get(props, "tourism")) \/ Truthy(Get(props, "historic")))
        THEN [layer |-> "points", minLOD |-> 3]
    ELSE RenderNone

\* The highway class tested when the remap of construction roads is left out.
HighwayAsTagged(props) == Get(props, "highway")

\* classify_feature_importance, lines 982-987: effective_highway, a road
\* under construction counting as the road it becomes.
ImportanceHighway(props) ==
    IF Get(props, "highway") = "construction" /\ Truthy(Get(props, "construction"))
    THEN Get(props, "construction") ELSE Get(props, "highway")

\* classify_feature_importance: the importance score (second component).
classify_feature_importance(props, geom_type) ==
    LET highway == Get(props, "highway")
        railway == Get(props, "railway")
        waterway == Get(props, "waterway")
        natural == Get(props, "natural")
        landuse == Get(props, "landuse")
        building == Get(props, "building")
        leisure == Get(props, "leisure")
        effective_highway == ImportanceHighway(props)
        place_type == Get(props, "place")
    IN
    IF natural = "coastline" THEN 110
    ELSE IF natural = "water" \/ Truthy(Get(props, "water")) \/ waterway = "riverbank"
        THEN 100
    ELSE IF landuse = "forest" \/ natural = "wood" THEN 90
    ELSE IF effective_highway \in MAJOR_HIGHWAYS THEN 80
    ELSE IF Truthy(railway) /\ geom_type # "Point" /\ railway \in ALL_RAIL_TYPES THEN 70
    ELSE IF waterway \in MAJOR_WATERWAYS THEN 60
    ELSE IF effective_highway \in SECONDARY_HIGHWAYS THEN 50
    ELSE IF leisure = "park" \/ landuse \in PARK_LANDUSE \/ landuse \in FARM_LANDUSE
        THEN 40
    ELSE IF effective_highway \in TERTIARY_RESIDENTIAL_HIGHWAYS THEN 30
    ELSE IF Truthy(building) THEN 20
    ELSE IF Truthy(effective_highway) THEN 10
    ELSE IF geom_type = "Point" /\ Truthy(place_type) /\ Truthy(Get(props, "name"))
        THEN CASE place_type = "city" -> 95
               [] place_type = "town" -> 85
               [] place_type = "village" -> 55
               [] place_type \in {"suburb", "borough", "quarter"} -> 25
               [] OTHER -> 8
    ELSE IF geom_type = "Point" /\ Truthy(Get(props, "name"))
            /\ (Truthy(Get(props, "amenity")) \/ Truthy(Get(props, "shop"))
                \/ Truthy(Get(props, "tourism")))
        THEN 5
    ELSE 0
\* The classification of the modelled features.
RenderTable ==
    [fid \in FeatureIds |->
        get_render_metadata(Catalog[fid].props, Catalog[fid].geometry.type)]
ImportanceTable ==
    [fid \in FeatureIds |->
        classify_feature_importance(Catalog[fid].props, Catalog[fid].geometry.type)]

\* -------------------------------------------------------- simplification
\* What shapely's simplify() can give back for a geometry it is called on:
\* fewer coordinates (at least 10% fewer), no useful reduction or an exception,
\* or an empty geometry.
SimplifyOutcomes == {"reduced", "kept", "empty"}

\* The early returns without the one for coastlines at zoom 14.
SimplifyAttemptedCoastAt14(fid, zoom) ==
    LET f == Catalog[fid]
        props == f.props
        is_road == Get(props, "highway") # None
    IN  /\ f.geometry.type # None
        /\ f.geometry.type # "Point"
        /\ ~Truthy(Get(props, "building"))
        /\ f.geometry.ncoords >= 5
        /\ ~(is_road /\ zoom = 14)

\* simplify_feature_for_zoom reaches the shapely call (no early return).
SimplifyAttempted(fid, zoom) ==
    LET f == Catalog[fid]
        props == f.props
        is_road == Get(props, "highway") # None
        is_coastline == Get(props, "natural") = "coastline"
    IN  /\ f.geometry.type # None
        /\ f.geometry.type # "Point"
        /\ ~Truthy(Get(props, "building"))
        /\ f.geometry.ncoords >= 5
        /\ ~(is_road /\ zoom = 14)
        /\ ~(~is_road /\ is_coastline /\ zoom = 14)

\* simplify_feature_for_zoom: the geometry the feature carries afterwards,
\* "orig" (unchanged), "simp" (simplified) or "empty"; outcome is shapely's
\* result for this feature at this zoom.
simplify_feature_for_zoom(fid, zoom, outcome) ==
    IF ~SimplifyAttempted(fid, zoom) THEN "orig"
    ELSE CASE outcome = "reduced" -> "simp"
           [] outcome = "empty" -> "empty"
           [] OTHER -> "orig"

\* The serialized feature written for a zoom level (json.dumps of zoom_feature).
FeatureJson(fid, geom) == [fid |-> fid, geom |-> geom]

\* get_feature_bounds raises (coords[0] of an empty Polygon / MultiPolygon).
BoundsRaises(fj) ==
    fj.geom = "empty" /\ Catalog[fj.fid].geometry.type \in POLYGON_TYPES

\* get_feature_bounds returns None (no coordinate was collected).
BoundsNone(fj) == fj.geom = "empty" /\ ~BoundsRaises(fj)

\* Only the tile of the north-west corner of the bounding box.
get_tiles_of_first_corner(fj, zoom) ==
    IF BoundsNone(fj) THEN <<>>
    ELSE LET g == Catalog[fj.fid].geometry
         IN  <<<<lon_to_tile_x(g.minLon, zoom), lat_to_tile_y(g.maxLat, zoom)>>>>

\* get_tiles_for_feature: the (x, y) of the tiles, x-major, for a zoom level.
get_tiles_for_feature(fj, zoom) ==
    IF BoundsNone(fj) THEN <<>>
    ELSE
    LET g == Catalog[fj.fid].geometry
        min_x == lon_to_tile_x(g.minLon, zoom)
        max_x == lon_to_tile_x(g.maxLon, zoom)
        min_y == lat_to_tile_y(g.maxLat, zoom)
        max_y == lat_to_tile_y(g.minLat, zoom)
        ny == max_y - min_y + 1
        n == (max_x - min_x + 1) * ny
    IN  [i \in 1..n |-> <<min_x + ((i - 1) \div ny), min_y + ((i - 1) % ny)>>]

\* minLOD after the size-based adjustment for forests and water bodies.
AdjustedMinLOD(fid) ==
    LET f == Catalog[fid]
        rm == RenderTable[fid]
        area == (f.geometry.maxLon - f.geometry.minLon)
                    * (f.geometry.maxLat - f.geometry.minLat)
    IN  IF rm.layer \in {"forests", "water_areas"}
        THEN IF area < 1 THEN Max(rm.minLOD, 2)
             ELSE IF area < 100 THEN Max(rm.minLOD, 1)
             ELSE rm.minLOD
        ELSE rm.minLOD

\* target_zooms of a feature from its minLOD.
TargetZooms(min_lod) ==
    CASE min_lod = 0 -> LOD_0_ZOOMS
      [] min_lod = 1 -> LOD_1_ZOOMS
      [] min_lod = 2 -> LOD_2_ZOOMS
      [] min_lod = 3 -> LOD_3_ZOOMS
      [] OTHER -> LOD_4_ZOOMS

AllZooms == SeqToSet(LOD_0_ZOOMS)

\* The feature is skipped by the streaming loop (render_meta is None).
Unclassified(fid) == RenderTable[fid] = RenderNone

\* target_zooms of the modelled features.
TargetTable ==
    [fid \in FeatureIds |->
        IF Unclassified(fid) THEN <<>> ELSE TargetZooms(AdjustedMinLOD(fid))]

\* The zoom levels at which the streaming loop has shapely simplify a feature.
CalledTable ==
    [fid \in FeatureIds |->
        {z \in SeqToSet(TargetTable[fid]) : SimplifyAttempted(fid, z)}]

\* shapely's result at a zoom level, "kept" where it is not called.
OutcomeAt(o, z) == IF z \in DOMAIN o THEN o[z] ELSE "kept"

\* The rows of a feature whose geometry is cut at the bounds of each tile.
RowsForZoomClipped(fid, zoom, outcome) ==
    LET fj == FeatureJson(fid, simplify_feature_for_zoom(fid, zoom, outcome))
        t == get_tiles_for_feature(fj, zoom)
        imp == ImportanceTable[fid]
    IN  [i \in 1..Len(t) |->
            [x |-> t[i][1], y |-> t[i][2], importance |-> imp,
             fj |-> IF Len(t) > 1 THEN FeatureJson(fid, "clipped") ELSE fj]]

\* The rows (x, y, importance, feature_json) one zoom level receives from a
\* feature, given shapely's outcome for that zoom.
RowsForZoom(fid, zoom, outcome) ==
    LET fj == FeatureJson(fid, simplify_feature_for_zoom(fid, zoom, outcome))
        t == get_tiles_for_feature(fj, zoom)
        imp == ImportanceTable[fid]
    IN  [i \in 1..Len(t) |-> [x |-> t[i][1], y |-> t[i][2], importance |-> imp, fj |-> fj]]

\* The body of the streaming loop raises for this feature: feature["geometry"]
\* is null, batches[zoom] has no key for a target zoom, or the bounds of the
\* simplified geometry cannot be computed.
FeatureRaises(fid, zoom_levels, outcomes) ==
    \/ Catalog[fid].geometry.type = None
    \/ \E z \in SeqToSet(TargetTable[fid]) :
            \/ BoundsRaises(FeatureJson(fid,
                    simplify_feature_for_zoom(fid, z, OutcomeAt(outcomes, z))))
            \/ /\ z \notin SeqToSet(zoom_levels)
               /\ Len(RowsForZoom(fid, z, OutcomeAt(outcomes, z))) > 0
\* ------------------------------------------------------- zoom databases
\* A per-zoom SQLite database file {db_prefix}_z{zoom}.db: tile_features rows
\* in rowid order, and whether metadata holds the current input fingerprint
\* and the bounds.
NoDb == [exists |-> FALSE, rows |-> <<>>, fingerprint |-> FALSE, bounds |-> FALSE]
FreshDb == [exists |-> TRUE, rows |-> <<>>, fingerprint |-> FALSE, bounds |-> FALSE]

\* open_zoom_db: is_cached, the file exists and holds the fingerprint asked
\* for (fingerprint is FALSE when the caller passes none).
IsCached(d, fingerprint) == d.exists /\ fingerprint /\ d.fingerprint

\* open_zoom_db without the unlink of a file that is there.
open_zoom_db_keeping(d, fingerprint) == IF d.exists THEN d ELSE FreshDb

\* open_zoom_db: the database afterwards, kept when cached, else recreated.
open_zoom_db(d, fingerprint) == IF IsCached(d, fingerprint) THEN d ELSE FreshDb

\* --------------------------------------------------------- pass 2 order
\* ORDER BY x, y, importance DESC
RowBefore(a, b) ==
    \/ a.x < b.x
    \/ a.x = b.x /\ a.y < b.y
    \/ a.x = b.x /\ a.y = b.y /\ a.importance > b.importance

RECURSIVE InsertRowBeforeTies(_, _)
\* Insert row e into the ordered sequence s in front of the rows equal to it.
InsertRowBeforeTies(s, e) ==
    IF s = <<>> THEN <<e>>
    ELSE IF ~RowBefore(s[1], e) THEN <<e>> \o s
    ELSE <<s[1]>> \o InsertRowBeforeTies(Tail(s), e)

RECURSIVE InsertRow(_, _)
\* Insert row e into the ordered sequence s behind every row not after it.
InsertRow(s, e) ==
    IF s = <<>> THEN <<e>>
    ELSE IF RowBefore(e, s[1]) THEN <<e>> \o s
    ELSE <<s[1]>> \o InsertRow(Tail(s), e)

RECURSIVE OrderedRows(_)
\* The cursor of pass 2: the rows in ORDER BY order; rows equal on
\* (x, y, importance) come in rowid order (index idx_tile).
OrderedRows(rows) ==
    IF rows = <<>> THEN <<>>
    ELSE InsertRow(OrderedRows(SubSeq(rows, 1, Len(rows) - 1)), rows[Len(rows)])

RECURSIVE TileGroupsByColumn(_)
\* The cursor of pass 2 cut where x changes only.
TileGroupsByColumn(ordered) ==
    IF ordered = <<>> THEN <<>>
    ELSE LET r == ordered[1]
             same == {i \in 1..Len(ordered) : ordered[i].x = r.x}
             n == Cardinality(same)
         IN  <<[x |-> r.x, y |-> r.y,
                feature_jsons |-> [i \in 1..n |-> ordered[i].fj]]>>
             \o TileGroupsByColumn(SubSeq(ordered, n + 1, Len(ordered)))

RECURSIVE TileGroups(_)
\* The cursor of pass 2 cut into its tiles: a sequence of
\* [x, y, feature_jsons], one per distinct (x, y), in cursor order.
TileGroups(ordered) ==
    IF ordered = <<>> THEN <<>>
    ELSE LET r == ordered[1]
             same == {i \in 1..Len(ordered) : ordered[i].x = r.x /\ ordered[i].y = r.y}
             n == Cardinality(same)
         IN  <<[x |-> r.x, y |-> r.y,
                feature_jsons |-> [i \in 1..n |-> ordered[i].fj]]>>
             \o TileGroups(SubSeq(ordered, n + 1, Len(ordered)))

RECURSIVE Dedup(_)
\* seen / all_features loop: the first occurrence of each string is kept.
Dedup(s) ==
    IF s = <<>> THEN <<>>
    ELSE LET d == Dedup(SubSeq(s, 1, Len(s) - 1))
         IN  IF s[Len(s)] \in SeqToSet(d) THEN d ELSE Append(d, s[Len(s)])

\* has_coastline of a feature list
HasCoastline(features) ==
    \E i \in 1..Len(features) :
        Get(Catalog[features[i].fid].props, "natural") = "coastline"

\* has_land_features without the exclusion of coastline and water.
HasLandFeaturesAnyNatural(features) ==
    \E i \in 1..Len(features) :
        LET props == Catalog[features[i].fid].props
        IN  \/ Truthy(Get(props, "highway"))
            \/ Truthy(Get(props, "building"))
            \/ Truthy(Get(props, "landuse"))
            \/ Truthy(Get(props, "railway"))
            \/ Truthy(Get(props, "amenity"))
            \/ Truthy(Get(props, "shop"))
            \/ Truthy(Get(props, "natural"))

\* has_land_features of a feature list
HasLandFeatures(features) ==
    \E i \in 1..Len(features) :
        LET props == Catalog[features[i].fid].props
        IN  \/ Truthy(Get(props, "highway"))
            \/ Truthy(Get(props, "building"))
            \/ Truthy(Get(props, "landuse"))
            \/ Truthy(Get(props, "railway"))
            \/ Truthy(Get(props, "amenity"))
            \/ Truthy(Get(props, "shop"))
            \/ /\ Truthy(Get(props, "natural"))
               /\ Get(props, "natural") \notin {"coastline", "water"}

\* A tile document {zoom}/{x}/{y}.json.  meta: the "_meta" block is present.
\* The tile written for a tile that is not the last one of its zoom level in
\* split_geojson_into_tiles: existing and new features, no "_meta".
PlainTileDoc(existing_features, feature_jsons) ==
    [meta |-> FALSE, hasCoastline |-> FALSE, hasLandFeatures |-> FALSE,
     features |-> existing_features \o feature_jsons]

\* The tile written with deduplication and the "_meta" block.
MetaTileDoc(existing_features, feature_jsons) ==
    LET all_features == Dedup(existing_features \o feature_jsons)
    IN  [meta |-> TRUE,
         hasCoastline |-> HasCoastline(all_features),
         hasLandFeatures |-> HasLandFeatures(all_features),
         features |-> all_features]

\* existing_features: the features of the document at a tile path, re-serialized.
ExistingFeatures(tiles, key) ==
    IF key \in DOMAIN tiles THEN tiles[key].features ELSE <<>>
\* The tile groups of one zoom database, in the order pass 2 writes them.
Groups(dbs, zoom) == TileGroups(OrderedRows(dbs[zoom].rows))

RECURSIVE WriteGroups(_, _, _)
\* write_tiles_from_databases, one zoom level: every tile is merged with the
\* document already at its path, deduplicated and written with "_meta".
WriteGroups(tiles, zoom, groups) ==
    IF groups = <<>> THEN tiles
    ELSE LET g == groups[1]
             key == <<zoom, g.x, g.y>>
             doc == MetaTileDoc(ExistingFeatures(tiles, key), g.feature_jsons)
         IN  WriteGroups((key :> doc) @@ tiles, zoom, Tail(groups))

RECURSIVE write_tiles_from_databases(_, _, _)
\* write_tiles_from_databases: the tile tree afterwards; zoom levels whose
\* database file does not exist are skipped.
write_tiles_from_databases(tiles, dbs, zoom_levels) ==
    IF zoom_levels = <<>> THEN tiles
    ELSE LET zoom == zoom_levels[1]
             written == IF dbs[zoom].exists
                        THEN WriteGroups(tiles, zoom, Groups(dbs, zoom))
                        ELSE tiles
         IN  write_tiles_from_databases(written, dbs, Tail(zoom_levels))

RECURSIVE NextPos(_, _, _, _)
\* The next tile pass 2 of split_geojson_into_tiles writes, from tile ti of
\* zoom_levels[zi] on; zi = Len(zoom_levels) + 1 when none is left.
NextPos(dbs, zoom_levels, zi, ti) ==
    IF zi > Len(zoom_levels) THEN [zi |-> zi, ti |-> 1]
    ELSE IF ti <= Len(Groups(dbs, zoom_levels[zi])) THEN [zi |-> zi, ti |-> ti]
    ELSE NextPos(dbs, zoom_levels, zi + 1, 1)

\* ------------------------------------------------------------ the state
VARIABLES
    env,               \* the inputs of the run: command line and files found
    db,                \* db[s][zoom]: the per-zoom database files of source s
    shapely,           \* shapely's simplify results so far, by <<fid, zoom>>
    pc,                \* where main() is
    exit_code,         \* the process exit code, -1 while running
    files_to_process,  \* main: the GeoJSON sources handed to the pool, in order
    cached_pbf_files,  \* main: [bound, files, done]; bound is FALSE while the
                       \* name is unassigned, done counts the files written
    all_results,       \* main: the result records collected so far
    temp,              \* the temporary build directory: [exists, tiles, index]
    out,               \* the final output path: [state, tiles, index], state
                       \* "previous", "missing" or "new"
    w,                 \* w[s]: the pool worker processing source s
    dl                 \* step_1_download.py: one call of download_with_progress

main_vars == <<env, db, shapely, pc, exit_code, files_to_process, cached_pbf_files,
               all_results, temp, out, w>>

vars == <<env, db, shapely, pc, exit_code, files_to_process, cached_pbf_files,
          all_results, temp, out, w, dl>>

\* The sources given to this run.
Given == 1..env.nsources

\* The stem of the file name of a source; the rest of the name
\* ("-latest.osm.geojson") is the same for all.
SourceName(s) ==
    IF s = 2 THEN <<"s", "a", "a", "r", "l", "a", "n", "d">>
    ELSE <<"h", "a", "m", "b", "u", "r", "g">>

\* The bounds get_pbf_bounds reads from the header of a source, in
\* centidegrees.
SourceBounds(s) ==
    IF s = 2 THEN [minLon |-> 635, maxLon |-> 741, minLat |-> 4911, maxLat |-> 4964]
    ELSE [minLon |-> 965, maxLon |-> 1033, minLat |-> 5339, maxLat |-> 5375]

\* No index.json, hence no bounds.
NoIndexBounds == [minLon |-> 0, maxLon |-> 0, minLat |-> 0, maxLat |-> 0]

\* HAMBURG_CENTER_LON / HAMBURG_CENTER_LAT - / + 0.1, in centidegrees.
FallbackBounds == [minLon |-> 990, maxLon |-> 1010, minLat |-> 5345, maxLat |-> 5365]

IdleWorker ==
    [pc |-> "idle", read |-> <<>>, batches |-> [z \in AllZooms |-> <<>>],
     skipped |-> 0, zi |-> 1, ti |-> 1, existing |-> <<>>]

RECURSIVE StreamRows(_, _)
\* The rows a zoom database holds after a complete import of the features
\* fids, shapely leaving every geometry as it is.
StreamRows(fids, zoom) ==
    IF fids = <<>> THEN <<>>
    ELSE LET fid == fids[Len(fids)]
             mine == IF zoom \in SeqToSet(TargetTable[fid])
                     THEN RowsForZoom(fid, zoom, "kept") ELSE <<>>
         IN  StreamRows(SubSeq(fids, 1, Len(fids) - 1), zoom) \o mine

\* A database left by an earlier complete run over the features fids.
CachedDb(fids, zoom, with_bounds) ==
    [exists |-> TRUE, rows |-> StreamRows(fids, zoom), fingerprint |-> TRUE,
     bounds |-> with_bounds]

\* The input of the earlier run whose databases a run may find.
CachedInput == <<3, 2>>

\* The input of a still earlier run, whose fingerprint is not the current one.
StaleInput == <<2>>

\* A database left by a run over an input that has changed since.
StaleDb(zoom) ==
    [exists |-> TRUE, rows |-> StreamRows(StaleInput, zoom), fingerprint |-> FALSE,
     bounds |-> TRUE]

\* The database files a run may find for one source, by kind: "none", the
\* complete set of an earlier run, "cached" with bounds metadata or
\* "cached_no_bounds" (written by an older version) without, or that set
\* with the file of the last zoom level missing ("partial") or left from
\* a changed input ("stale").
InitialDbs(kind, zoom_levels) ==
    [z \in AllZooms |->
        IF kind = "none" \/ z \notin SeqToSet(zoom_levels) THEN NoDb
        ELSE IF kind = "partial" /\ z = zoom_levels[Len(zoom_levels)] THEN NoDb
        ELSE IF kind = "stale" /\ z = zoom_levels[Len(zoom_levels)] THEN StaleDb(z)
        ELSE CachedDb(CachedInput, z, kind # "cached_no_bounds")]

DbKinds == {"none", "cached", "cached_no_bounds"}

\* The initial states of a run whose inputs are drawn from the given sets:
\* the mode (GeoJSON files named on the command line, or the data directory
\* scanned), the number of sources, whether the .pbf file of a source exists,
\* whether osmium delivers its bounds, whether its .geojson file exists, the
\* database files found, the features its stream may deliver, the state
\* of the output path, and the tile paths open(tile_file, "w") fails on.
InitMain(zooms, modes, counts, pbfs, osmiums, geojsons, kinds, feature_ids, outs, unwritable) ==
    /\ env \in {e \in [mode : modes,
                       zoom_levels : zooms,
                       jobs : {DefaultJobs},
                       nsources : counts,
                       has_pbf : [Sources -> pbfs],
                       osmium : [Sources -> osmiums],
                       geojson : [Sources -> geojsons],
                       size : {[s \in Sources |-> s]},
                       db_kind : [Sources -> kinds \cup {"none"}],
                       output : outs,
                       feature_ids : {feature_ids},
                       unwritable : unwritable] :
                  /\ e.mode = "explicit" => e.nsources >= 1
                  /\ e.mode = "explicit" => \A s \in Sources : e.geojson[s]
                  /\ e.mode = "directory" => \A s \in Sources : e.has_pbf[s]
                  /\ \A s \in Sources : s > e.nsources =>
                        e.has_pbf[s] /\ e.osmium[s] /\ e.geojson[s]
                  /\ \A s \in Sources :
                        \/ e.db_kind[s] = "none"
                        \/ s <= e.nsources /\ e.has_pbf[s]}
    /\ db = [s \in Sources |-> InitialDbs(env.db_kind[s], env.zoom_levels)]
    /\ shapely = <<>>
    /\ pc = "start"
    /\ exit_code = -1
    /\ files_to_process = <<>>
    /\ cached_pbf_files = [bound |-> FALSE, files |-> <<>>, done |-> 0]
    /\ all_results = <<>>
    /\ temp = [exists |-> FALSE, tiles |-> <<>>, index |-> FALSE, bounds |-> NoIndexBounds]
    /\ out = [state |-> env.output, tiles |-> <<>>, index |-> env.output = "previous",
             bounds |-> IF env.output = "previous" THEN SourceBounds(1) ELSE NoIndexBounds]
    /\ w = [s \in Sources |-> IdleWorker]

\* No download is under way.
DlIdle == [pc |-> "unused"]

\* The initial states of a run of step_3_generate_tiles.py.
InitWith(zooms, modes, counts, pbfs, osmiums, geojsons, kinds, feature_ids, outs, unwritable) ==
    /\ InitMain(zooms, modes, counts, pbfs, osmiums, geojsons, kinds, feature_ids,
                outs, unwritable)
    /\ dl = DlIdle

\* The runs with the default of --zoom-levels.
InitFrom(modes, counts, pbfs, osmiums, geojsons, kinds, feature_ids, outs, unwritable) ==
    InitWith({DefaultZoomLevels}, modes, counts, pbfs, osmiums, geojsons, kinds,
             feature_ids, outs, unwritable)

\* Runs of the orchestrator over sources of every kind.
Init ==
    InitFrom({"explicit", "directory"}, 0..NumSources, BOOLEAN, BOOLEAN, BOOLEAN,
             DbKinds, {2, 6}, {"previous", "missing"}, {{}})

\* Runs over the data directory whose sources are all in order: the tiles.
InitTiles ==
    InitFrom({"directory"}, {NumSources}, {TRUE}, {TRUE}, {TRUE},
             {"none", "cached"}, {2, 3}, {"previous"}, {{}})

\* Runs over one source, with every kind of feature in its stream.
InitFeatures ==
    InitFrom({"explicit", "directory"}, {1}, {TRUE}, {TRUE}, {TRUE},
             {"none", "cached"}, {1, 2, 3, 4, 5, 6, 10}, {"previous"}, {{}})

\* Runs in which the file of one tile may not be writable.
InitWrite ==
    InitFrom({"explicit", "directory"}, 1..NumSources, {TRUE}, {TRUE}, {TRUE},
             {"none", "cached"}, {2, 3}, {"previous"},
             {{}, {<<14, 8647, 5294>>}})

\* Runs over one source at the coast: a city label, a coastline, an island.
InitCoast ==
    InitFrom({"directory"}, {1}, {TRUE}, {TRUE}, {TRUE},
             {"none", "cached"}, {8, 9, 11}, {"previous"}, {{}})

\* Runs over two sources with land features, a city label and an island.
InitLand ==
    InitFrom({"directory"}, {NumSources}, {TRUE}, {TRUE}, {TRUE},
             {"none", "cached"}, {3, 8, 11}, {"previous"}, {{}})

\* Runs over one source of roads, some of them under construction.
InitRoads ==
    InitFrom({"directory"}, {1}, {TRUE}, {TRUE}, {TRUE},
             {"none", "cached"}, 12..22, {"previous"}, {{}})

\* Runs over one source of features whose bounding boxes span several tiles.
InitSpan ==
    InitFrom({"directory"}, {1}, {TRUE}, {TRUE}, {TRUE},
             {"none", "cached"}, {1, 10, 23}, {"previous"}, {{}})

\* Runs with --zoom-levels 11 14 or 8 11 14 over one source whose features
\* are due at lower zoom levels too.
InitZooms ==
    InitWith({<<11, 14>>, <<8, 11, 14>>}, {"explicit", "directory"}, {1}, {TRUE}, {TRUE}, {TRUE},
             {"none", "cached"}, {2, 3, 8, 13}, {"previous"}, {{}})

\* Runs over one source whose zoom databases are complete, incomplete or
\* partly left from a changed input.
InitCache ==
    InitFrom({"explicit", "directory"}, {1}, {TRUE}, {TRUE}, {TRUE},
             {"cached", "partial", "stale"}, {1, 13}, {"previous"}, {{}})

\* ------------------------------------------------------------- main()
RECURSIVE InsertBySize(_, _, _)
InsertBySize(sorted, s, size) ==
    IF sorted = <<>> THEN <<s>>
    ELSE IF size[s] > size[sorted[1]] THEN <<s>> \o sorted
    ELSE <<sorted[1]>> \o InsertBySize(Tail(sorted), s, size)

RECURSIVE SortBySizeDesc(_, _)
\* list.sort(key=lambda f: f.stat().st_size, reverse=True)
SortBySizeDesc(files, size) ==
    IF files = <<>> THEN <<>>
    ELSE InsertBySize(SortBySizeDesc(SubSeq(files, 1, Len(files) - 1), size),
                      files[Len(files)], size)

\* The sources 1..n as a list (the command line, or the glob of the data dir).
SourceList(n) == [i \in 1..n |-> i]

\* Restriction of a list to the members satisfying a set.
SelectIn(list, set) == SelectSeq(list, LAMBDA x : x \in set)

\* main: all zoom databases of a PBF file exist with the current fingerprint.
AllCached(s) ==
    \A i \in 1..Len(env.zoom_levels) :
        LET d == db[s][env.zoom_levels[i]] IN d.exists /\ d.fingerprint

\* main, lines 1904-1997: the sources are listed; without arguments the data
\* directory is scanned and the cached sources are set aside; the temporary
\* build directory is created.
MainScan ==
    /\ pc = "start"
    /\ IF env.mode = "explicit"
       THEN /\ files_to_process' = SourceList(env.nsources)
            /\ UNCHANGED cached_pbf_files
            /\ temp' = [temp EXCEPT !.exists = TRUE]
            /\ pc' = "pool"
            /\ UNCHANGED exit_code
       ELSE LET pbf_files == SourceList(env.nsources)
                cached == {s \in Given : AllCached(s)}
                missing == {s \in Given \ cached : ~env.geojson[s]}
            IN  IF pbf_files = <<>> \/ missing # {}
                THEN \* sys.exit(1): no PBF file, or a GeoJSON file is missing
                     /\ pc' = "exited"
                     /\ exit_code' = 1
                     /\ UNCHANGED <<files_to_process, cached_pbf_files, temp>>
                ELSE /\ files_to_process' =
                            SortBySizeDesc(SelectIn(pbf_files, Given \ cached), env.size)
                     /\ cached_pbf_files' =
                            [bound |-> TRUE,
                             files |-> SortBySizeDesc(SelectIn(pbf_files, cached), env.size),
                             done |-> 0]
                     /\ temp' = [temp EXCEPT !.exists = TRUE]
                     /\ pc' = "pool"
                     /\ UNCHANGED exit_code
    /\ UNCHANGED <<env, db, shapely, all_results, out, w>>
    /\ UNCHANGED dl

\* ------------------------------------------------- the pool's workers
\* Pool(min(args.jobs, len(tile_args)))
PoolSize == IF env.jobs <= Len(files_to_process) THEN env.jobs ELSE Len(files_to_process)

Running == {s \in Sources : w[s].pc \notin {"idle", "done"}}

\* The next task of imap_unordered is the first of the list not yet taken.
NextTask(s) ==
    \E i \in 1..Len(files_to_process) :
        /\ files_to_process[i] = s
        /\ w[s].pc = "idle"
        /\ \A j \in 1..(i - 1) : w[files_to_process[j]].pc # "idle"

\* process_geojson_to_tiles: the result record of a source.
Result(s, status, bounds) == [name |-> s, status |-> status, bounds |-> bounds]

\* A worker whose exception is not caught: the failed source leaves no
\* result record behind.
FinishUncaught(s, worker, status) ==
    /\ w' = [w EXCEPT ![s] = [worker EXCEPT !.pc = "done"]]
    /\ all_results' = IF status = "failed" THEN all_results
                      ELSE Append(all_results, Result(s, status, TRUE))

\* The worker of source s ends: its record is the next result of the pool.
Finish(s, worker, status) ==
    /\ w' = [w EXCEPT ![s] = [worker EXCEPT !.pc = "done"]]
    /\ all_results' = Append(all_results, Result(s, status, status = "success"))

\* Pass 2 goes on at the next tile, or the source is done.
Continue(s, worker, dbs, zi, ti) ==
    LET pos == NextPos(dbs, env.zoom_levels, zi, ti)
    IN  IF pos.zi > Len(env.zoom_levels)
        THEN Finish(s, worker, "success")
        ELSE /\ w' = [w EXCEPT ![s] = [worker EXCEPT !.pc = "read",
                                                      !.zi = pos.zi, !.ti = pos.ti]]
             /\ UNCHANGED all_results

\* split_geojson_into_tiles, lines 1170-1251: a worker takes the source, opens
\* the zoom databases, decides between the cached databases and a rebuild,
\* and obtains the bounds.
WOpen(s) ==
    /\ pc = "pool"
    /\ NextTask(s)
    /\ Cardinality(Running) < PoolSize
    /\ LET zl == env.zoom_levels
           zs == SeqToSet(zl)
           need_import == \E z \in zs : ~IsCached(db[s][z], TRUE)
           is_pbf == env.has_pbf[s]
       IN  IF ~need_import
           THEN IF db[s][zl[1]].bounds
                THEN /\ UNCHANGED db
                     /\ Continue(s, w[s], db[s], 1, 1)
                ELSE IF is_pbf /\ env.osmium[s]
                THEN /\ db' = [db EXCEPT ![s][zl[1]].bounds = TRUE]
                     /\ Continue(s, w[s], db'[s], 1, 1)
                ELSE \* ValueError: no bounds in the cache nor from the PBF file
                     /\ UNCHANGED db
                     /\ Finish(s, w[s], "failed")
           ELSE /\ db' = [db EXCEPT ![s] =
                            [z \in AllZooms |-> IF z \in zs THEN open_zoom_db(db[s][z], FALSE)
                                                 ELSE db[s][z]]]
                /\ IF is_pbf /\ env.osmium[s]
                   THEN /\ w' = [w EXCEPT ![s].pc = "stream"]
                        /\ UNCHANGED all_results
                   ELSE \* ValueError: no bounds from the PBF header, or no PBF file
                        Finish(s, w[s], "failed")
    /\ UNCHANGED <<env, shapely, pc, exit_code, files_to_process, cached_pbf_files,
                   temp, out>>
    /\ UNCHANGED dl

\* shapely's results for feature fid, by zoom level, that agree with what it
\* returned before.
Outcomes(fid) ==
    {o \in [CalledTable[fid] -> SimplifyOutcomes] :
        \A z \in CalledTable[fid] :
            <<fid, z>> \in DOMAIN shapely => o[z] = shapely[<<fid, z>>]}

Remember(fid, o) == [k \in {<<fid, z>> : z \in DOMAIN o} |-> o[k[2]]] @@ shapely

\* batches after the rows of a feature are appended
Appended(batches, fid, o) ==
    [z \in AllZooms |->
        IF z \in SeqToSet(TargetTable[fid])
        THEN batches[z] \o RowsForZoom(fid, z, OutcomeAt(o, z)) ELSE batches[z]]

\* A flush that stores the fingerprint with every batch it inserts.
FlushedWithFingerprint(dbs, batches, zoom_levels, always) ==
    [z \in AllZooms |->
        IF z \in SeqToSet(zoom_levels)
           /\ (Len(batches[z]) >= BATCH_SIZE \/ (always /\ batches[z] # <<>>))
        THEN [dbs[z] EXCEPT !.rows = @ \o batches[z], !.fingerprint = TRUE]
        ELSE dbs[z]]

\* "Flush each zoom's batch independently": a full batch is inserted and
\* committed; always is TRUE for the flush of the remainders.
Flushed(dbs, batches, zoom_levels, always) ==
    [z \in AllZooms |->
        IF z \in SeqToSet(zoom_levels)
           /\ (Len(batches[z]) >= BATCH_SIZE \/ (always /\ batches[z] # <<>>))
        THEN [dbs[z] EXCEPT !.rows = @ \o batches[z]] ELSE dbs[z]]

Cleared(batches, zoom_levels, always) ==
    [z \in AllZooms |->
        IF z \in SeqToSet(zoom_levels)
           /\ (Len(batches[z]) >= BATCH_SIZE \/ (always /\ batches[z] # <<>>))
        THEN <<>> ELSE batches[z]]

\* split_geojson_into_tiles, lines 1265-1398: one iteration of the streaming
\* loop over the next feature of the GeoJSON file.
WStream(s) ==
    /\ w[s].pc = "stream"
    /\ Len(w[s].read) < MaxFeatures
    /\ \E fid \in env.feature_ids : \E o \in Outcomes(fid) :
        LET worker == [w[s] EXCEPT !.read = Append(@, fid)]
        IN  IF FeatureRaises(fid, env.zoom_levels, o)
            THEN \* the exception leaves split_geojson_into_tiles
                 /\ Finish(s, worker, "failed")
                 /\ shapely' = Remember(fid, o)
                 /\ UNCHANGED db
            ELSE IF Unclassified(fid)
            THEN /\ w' = [w EXCEPT ![s] = [worker EXCEPT !.skipped = @ + 1]]
                 /\ UNCHANGED <<db, shapely, all_results>>
            ELSE LET batches == Appended(worker.batches, fid, o)
                 IN  /\ db' = [db EXCEPT ![s] = Flushed(@, batches, env.zoom_levels, FALSE)]
                     /\ w' = [w EXCEPT ![s] = [worker EXCEPT !.batches =
                                    Cleared(batches, env.zoom_levels, FALSE)]]
                     /\ shapely' = Remember(fid, o)
                     /\ UNCHANGED all_results
    /\ UNCHANGED <<env, pc, exit_code, files_to_process, cached_pbf_files, temp, out>>
    /\ UNCHANGED dl

\* split_geojson_into_tiles, lines 1400-1413: the stream has ended and the
\* remaining batches of every zoom level are inserted and committed.
WEndStream(s) ==
    /\ w[s].pc = "stream"
    /\ db' = [db EXCEPT ![s] = Flushed(@, w[s].batches, env.zoom_levels, TRUE)]
    /\ w' = [w EXCEPT ![s] = [w[s] EXCEPT !.batches = Cleared(@, env.zoom_levels, TRUE),
                                          !.pc = "index", !.zi = 1]]
    /\ UNCHANGED <<env, shapely, pc, exit_code, files_to_process, cached_pbf_files,
                   all_results, temp, out>>
    /\ UNCHANGED dl

\* split_geojson_into_tiles, lines 1420-1429: one round of the loop that
\* creates the index of a zoom database and stores fingerprint and bounds
\* in its metadata; after the last zoom level pass 2 starts.
WStoreFingerprint(s) ==
    /\ w[s].pc = "index"
    /\ LET zoom == env.zoom_levels[w[s].zi]
           stored == [db[s] EXCEPT ![zoom].fingerprint = TRUE, ![zoom].bounds = TRUE]
       IN  /\ db' = [db EXCEPT ![s] = stored]
           /\ IF w[s].zi < Len(env.zoom_levels)
              THEN /\ w' = [w EXCEPT ![s].zi = @ + 1]
                   /\ UNCHANGED all_results
              ELSE Continue(s, w[s], stored, 1, 1)
    /\ UNCHANGED <<env, shapely, pc, exit_code, files_to_process, cached_pbf_files,
                   temp, out>>
    /\ UNCHANGED dl

\* The tile pass 2 of worker s is at.
CurrentGroup(s) == Groups(db[s], env.zoom_levels[w[s].zi])[w[s].ti]
CurrentKey(s) == <<env.zoom_levels[w[s].zi], CurrentGroup(s).x, CurrentGroup(s).y>>
IsLastTileOfZoom(s) == w[s].ti = Len(Groups(db[s], env.zoom_levels[w[s].zi]))

\* split_geojson_into_tiles, lines 1474-1485 and 1551-1562: the document
\* already at the tile's path is read.
WReadTile(s) ==
    /\ w[s].pc = "read"
    /\ w' = [w EXCEPT ![s].pc = "write",
                      ![s].existing = ExistingFeatures(temp.tiles, CurrentKey(s))]
    /\ UNCHANGED <<env, db, shapely, pc, exit_code, files_to_process,
                   cached_pbf_files, all_results, temp, out>>
    /\ UNCHANGED dl

\* The document pass 2 of split_geojson_into_tiles writes for a tile: the
\* last tile of a zoom level (lines 1564-1614) is deduplicated and carries
\* "_meta"; the tiles before it (lines 1487-1493) are written as they are.
SplitTileDoc(is_last, existing_features, feature_jsons) ==
    IF is_last THEN MetaTileDoc(existing_features, feature_jsons)
    ELSE PlainTileDoc(existing_features, feature_jsons)

\* split_geojson_into_tiles, lines 1487-1494 and 1564-1615: the tile file is
\* written; after the last tile of the last zoom level the source is done.
\* Nothing catches an error of open() or write().
WWriteTile(s) ==
    /\ w[s].pc = "write"
    /\ LET doc == SplitTileDoc(IsLastTileOfZoom(s), w[s].existing,
                               CurrentGroup(s).feature_jsons)
           worker == [w[s] EXCEPT !.existing = <<>>]
       IN  IF CurrentKey(s) \in env.unwritable
           THEN \* OSError from open(): it leaves split_geojson_into_tiles
                /\ UNCHANGED temp
                /\ Finish(s, worker, "failed")
           ELSE /\ temp' = [temp EXCEPT !.tiles = (CurrentKey(s) :> doc) @@ @]
                /\ Continue(s, worker, db[s], w[s].zi, w[s].ti + 1)
    /\ UNCHANGED <<env, db, shapely, pc, exit_code, files_to_process,
                   cached_pbf_files, out>>
    /\ UNCHANGED dl
\* ---------------------------------------------------- main(), continued
\* main, lines 2023-2036: the pool has delivered every result.  With GeoJSON
\* files named on the command line cached_pbf_files was never assigned, and
\* reading it raises UnboundLocalError: the interpreter exits with code 1.
MainJoin ==
    /\ pc = "pool"
    /\ \A i \in 1..Len(files_to_process) : w[files_to_process[i]].pc = "done"
    /\ IF ~cached_pbf_files.bound
       THEN /\ pc' = "exited"
            /\ exit_code' = 1
       ELSE /\ pc' = IF cached_pbf_files.files = <<>> THEN "summary" ELSE "cached"
            /\ UNCHANGED exit_code
    /\ UNCHANGED <<env, db, shapely, files_to_process, cached_pbf_files, all_results,
                   temp, out, w>>
    /\ UNCHANGED dl

\* Position of a zoom level in the list of zoom levels.
ZoomIndex(zoom_levels, zoom) ==
    CHOOSE i \in 1..Len(zoom_levels) : zoom_levels[i] = zoom

\* The tile paths of unwritable that write_tiles_from_databases comes to.
UnwritableOf(dbs, zoom_levels, unwritable) ==
    {k \in unwritable :
        /\ k[1] \in SeqToSet(zoom_levels)
        /\ dbs[k[1]].exists
        /\ \E i \in 1..Len(dbs[k[1]].rows) :
              dbs[k[1]].rows[i].x = k[2] /\ dbs[k[1]].rows[i].y = k[3]}

\* The rows of the tiles write_tiles_from_databases has written when open()
\* raises on the first unwritable path: the tiles before it in the order of
\* the zoom levels and of the cursor.
BeforeUnwritable(dbs, zoom_levels, unwritable) ==
    LET hit == UnwritableOf(dbs, zoom_levels, unwritable)
        reached(z, r) ==
            \A k \in hit :
                \/ ZoomIndex(zoom_levels, z) < ZoomIndex(zoom_levels, k[1])
                \/ z = k[1] /\ (r.x < k[2] \/ (r.x = k[2] /\ r.y < k[3]))
    IN  [z \in AllZooms |->
            IF z \in SeqToSet(zoom_levels)
            THEN [dbs[z] EXCEPT !.rows = SelectSeq(@, LAMBDA r : reached(z, r))]
            ELSE dbs[z]]

\* main, lines 2046-2065: the tiles of the next cached source are written
\* from its databases and the source is recorded as a success, with the
\* bounds get_pbf_bounds returned (possibly None).  An error of open() in
\* write_tiles_from_databases is caught nowhere: main ends with a traceback.
MainCached ==
    /\ pc = "cached"
    /\ LET s == cached_pbf_files.files[cached_pbf_files.done + 1]
       IN  IF UnwritableOf(db[s], env.zoom_levels, env.unwritable) # {}
           THEN /\ temp' = [temp EXCEPT !.tiles =
                               write_tiles_from_databases(@,
                                   BeforeUnwritable(db[s], env.zoom_levels, env.unwritable),
                                   env.zoom_levels)]
                /\ pc' = "exited"
                /\ exit_code' = 1
                /\ UNCHANGED <<all_results, cached_pbf_files>>
           ELSE /\ temp' = [temp EXCEPT !.tiles =
                               write_tiles_from_databases(@, db[s], env.zoom_levels)]
                /\ all_results' = Append(all_results, Result(s, "success", env.osmium[s]))
                /\ cached_pbf_files' = [cached_pbf_files EXCEPT !.done = @ + 1]
                /\ pc' = IF cached_pbf_files.done + 1 = Len(cached_pbf_files.files)
                         THEN "summary" ELSE "cached"
                /\ UNCHANGED exit_code
    /\ UNCHANGED <<env, db, shapely, files_to_process, out, w>>
    /\ UNCHANGED dl

\* part in name, for strings as sequences of characters.
Contains(name, part) ==
    \E i \in 1..(Len(name) - Len(part) + 1) : SubSeq(name, i, i + Len(part) - 1) = part

Min(a, b) == IF a <= b THEN a ELSE b

RECURSIVE MergeBounds(_, _, _)
\* main, lines 2080-2090: the loop that widens merged_bounds by the bounds
\* of each successful result whose name does not contain "land"; merged is
\* the empty sequence while the bounds are still infinite.
MergeBounds(results, i, merged) ==
    IF i > Len(results) THEN merged
    ELSE LET r == results[i]
             b == SourceBounds(r.name)
             counts == /\ r.status = "success"
                       /\ r.bounds
                       /\ ~Contains(SourceName(r.name), <<"l", "a", "n", "d">>)
             next == IF ~counts THEN merged
                     ELSE IF merged = <<>> THEN <<b>>
                     ELSE <<[minLon |-> Min(merged[1].minLon, b.minLon),
                             maxLon |-> Max(merged[1].maxLon, b.maxLon),
                             minLat |-> Min(merged[1].minLat, b.minLat),
                             maxLat |-> Max(merged[1].maxLat, b.maxLat)]>>
         IN  MergeBounds(results, i + 1, next)

\* main, lines 2067-2138: the bounds written to index.json, the fallback
\* around Hamburg when no result gave any.
merged_bounds(results) ==
    LET merged == MergeBounds(results, 1, <<>>)
    IN  IF merged = <<>> THEN FallbackBounds ELSE merged[1]

success_count == Cardinality({i \in 1..Len(all_results) : all_results[i].status = "success"})

\* sys.exit(1) if success_count < len(all_results), else the normal end
FinalExitCode == IF success_count < Len(all_results) THEN 1 ELSE 0

\* main, lines 2067-2162 and 2170-2186: the results are summarized; with a
\* success the index is written, without one the temporary directory is
\* removed and the run ends.
MainSummary ==
    /\ pc = "summary"
    /\ IF success_count > 0
       THEN /\ temp' = [temp EXCEPT !.index = TRUE, !.bounds = merged_bounds(all_results)]
            /\ pc' = "replace"
            /\ UNCHANGED exit_code
       ELSE /\ temp' = [exists |-> FALSE, tiles |-> <<>>, index |-> FALSE, bounds |-> NoIndexBounds]
            /\ pc' = "exited"
            /\ exit_code' = FinalExitCode
    /\ UNCHANGED <<env, db, shapely, files_to_process, cached_pbf_files, all_results,
                   out, w>>
    /\ UNCHANGED dl

\* main, lines 2165-2166: shutil.rmtree of an existing output directory.
MainRemoveOld ==
    /\ pc = "replace"
    /\ out' = IF out.state = "missing" THEN out
              ELSE [state |-> "missing", tiles |-> <<>>, index |-> FALSE,
                    bounds |-> NoIndexBounds]
    /\ pc' = "move"
    /\ UNCHANGED <<env, db, shapely, exit_code, files_to_process, cached_pbf_files,
                   all_results, temp, w>>
    /\ UNCHANGED dl

\* main, lines 2168-2186: shutil.move of the temporary directory to the
\* output path, and the end of the run.
MainMove ==
    /\ pc = "move"
    /\ out' = [state |-> "new", tiles |-> temp.tiles, index |-> temp.index,
              bounds |-> temp.bounds]
    /\ temp' = [exists |-> FALSE, tiles |-> <<>>, index |-> FALSE, bounds |-> NoIndexBounds]
    /\ pc' = "exited"
    /\ exit_code' = FinalExitCode
    /\ UNCHANGED <<env, db, shapely, files_to_process, cached_pbf_files, all_results, w>>
    /\ UNCHANGED dl

Next ==
    \/ MainScan
    \/ \E s \in Sources : WOpen(s)
    \/ \E s \in Sources : WStream(s)
    \/ \E s \in Sources : WEndStream(s)
    \/ \E s \in Sources : WStoreFingerprint(s)
    \/ \E s \in Sources : WReadTile(s)
    \/ \E s \in Sources : WWriteTile(s)
    \/ MainJoin
    \/ MainCached
    \/ MainSummary
    \/ MainRemoveOld
    \/ MainMove

Spec == Init /\ [][Next]_vars
SpecTiles == InitTiles /\ [][Next]_vars
SpecFeatures == InitFeatures /\ [][Next]_vars
SpecWrite == InitWrite /\ [][Next]_vars
SpecCoast == InitCoast /\ [][Next]_vars
SpecLand == InitLand /\ [][Next]_vars
SpecRoads == InitRoads /\ [][Next]_vars
SpecSpan == InitSpan /\ [][Next]_vars
SpecZooms == InitZooms /\ [][Next]_vars
SpecCache == InitCache /\ [][Next]_vars

\* ========================================= step_1_download.py
\* The size of the remote file, in chunks of response.read().
MaxChunks == 2

\* What one call of download_with_progress finds: the .partial file and its
\* length in chunks, the .partial.meta file (none, well-formed, or
\* corrupted: unreadable from the first line on, or a line without ":"
\* after the ETag line), whether the remote file has changed since the
\* partial download, whether the server answers HEAD, sends ETag and
\* Last-Modified, and honours Range.
DlInputs ==
    {i \in [temp_exists : BOOLEAN, len : 0..(MaxChunks - 1),
            meta : {"none", "good", "corrupt_first", "corrupt_later"},
            changed : BOOLEAN, head : {"ok", "http_error"},
            etag : BOOLEAN, last_modified : BOOLEAN, ranges : BOOLEAN] :
        ~i.temp_exists => i.len = 0}

\* The chunks of a partial file left by an earlier call.
PartialData(len) == [k \in 1..len |-> [from |-> "partial", index |-> k]]

\* download_with_progress is called.
DlStart(i) ==
    [pc |-> "start", input |-> i,
     temp_exists |-> i.temp_exists, temp |-> PartialData(i.len), meta |-> i.meta,
     resume_pos |-> 0, saved_etag |-> None, saved_last_modified |-> None,
     current_etag |-> None, current_last_modified |-> None,
     range_sent |-> FALSE, status |-> 0, total_size |-> 0, sent |-> 0,
     output_exists |-> FALSE, output |-> <<>>]

\* The validator the server has for the remote file as it is now.
RemoteVersion(i) == IF i.changed THEN "v2" ELSE "v1"

\* step_1_download.py, lines 70-91: the partial file and its metadata are
\* looked at.  resume_pos is set before the metadata is read; what was
\* parsed before an exception stays.
DlReadMeta ==
    /\ dl.pc = "start"
    /\ IF dl.temp_exists /\ dl.meta # "none"
       THEN dl' = [dl EXCEPT !.pc = "head",
                             !.resume_pos = Len(dl.temp),
                             !.saved_etag = IF dl.meta \in {"good", "corrupt_later"}
                                            THEN "v1" ELSE None,
                             !.saved_last_modified = IF dl.meta = "good"
                                                     THEN "v1" ELSE None]
       ELSE IF dl.temp_exists
       THEN dl' = [dl EXCEPT !.pc = "head", !.temp_exists = FALSE, !.temp = <<>>]
       ELSE dl' = [dl EXCEPT !.pc = "head"]
    /\ UNCHANGED main_vars

\* lines 93-124: the HEAD request; a changed validator makes the download
\* start fresh, an HTTPError is passed over.
DlHead ==
    /\ dl.pc = "head"
    /\ IF dl.input.head = "http_error"
       THEN dl' = [dl EXCEPT !.pc = "get"]
       ELSE LET ce == IF dl.input.etag THEN RemoteVersion(dl.input) ELSE None
                cl == IF dl.input.last_modified THEN RemoteVersion(dl.input) ELSE None
                mismatch ==
                    \/ ce # None /\ dl.saved_etag # None /\ ce # dl.saved_etag
                    \/ /\ cl # None
                       /\ dl.saved_last_modified # None
                       /\ cl # dl.saved_last_modified
            IN  IF dl.resume_pos > 0 /\ mismatch
                THEN dl' = [dl EXCEPT !.pc = "get", !.current_etag = ce,
                                      !.current_last_modified = cl,
                                      !.resume_pos = 0,
                                      !.temp_exists = FALSE, !.temp = <<>>,
                                      !.meta = "none"]
                ELSE dl' = [dl EXCEPT !.pc = "get", !.current_etag = ce,
                                      !.current_last_modified = cl]
    /\ UNCHANGED main_vars

\* lines 126-170: the GET request, with a Range header when resuming; the
\* metadata is written and the partial file is opened, "ab" when resuming
\* and "wb" otherwise.
DlGet ==
    /\ dl.pc = "get"
    /\ LET range == dl.resume_pos > 0
           status == IF range /\ dl.input.ranges THEN 206 ELSE 200
           refused == range /\ status # 206
           resume_pos == IF refused THEN 0 ELSE dl.resume_pos
       IN  dl' = [dl EXCEPT !.pc = "body",
                            !.range_sent = range,
                            !.status = status,
                            !.current_etag =
                                IF @ = None /\ dl.input.etag
                                THEN RemoteVersion(dl.input) ELSE @,
                            !.current_last_modified =
                                IF @ = None /\ dl.input.last_modified
                                THEN RemoteVersion(dl.input) ELSE @,
                            !.resume_pos = resume_pos,
                            !.total_size = MaxChunks,
                            !.meta = "good",
                            !.temp_exists = TRUE,
                            !.temp = IF resume_pos > 0 THEN @ ELSE <<>>,
                            !.sent = IF status = 206 THEN dl.resume_pos ELSE 0]
    /\ UNCHANGED main_vars

\* lines 180-185: one chunk of the response is written to the partial file.
DlChunk ==
    /\ dl.pc = "body"
    /\ dl.sent < MaxChunks
    /\ dl' = [dl EXCEPT !.sent = @ + 1,
                        !.temp = Append(@, [from |-> "get", index |-> dl.sent + 1])]
    /\ UNCHANGED main_vars

\* lines 199-202: the connection breaks; the partial file and its metadata
\* are kept and the exception is raised again.
DlConnectionLost ==
    /\ dl.pc = "body"
    /\ dl.sent < MaxChunks
    /\ dl' = [dl EXCEPT !.pc = "raised"]
    /\ UNCHANGED main_vars

\* lines 187-198: the size is verified, the partial file becomes the output
\* file and the metadata is removed.
DlFinish ==
    /\ dl.pc = "body"
    /\ dl.sent = MaxChunks
    /\ IF dl.total_size > 0 /\ Len(dl.temp) # dl.total_size
       THEN dl' = [dl EXCEPT !.pc = "raised"]
       ELSE dl' = [dl EXCEPT !.pc = "done",
                             !.output_exists = TRUE, !.output = dl.temp,
                             !.temp_exists = FALSE, !.temp = <<>>,
                             !.meta = "none"]
    /\ UNCHANGED main_vars

NextDownload ==
    \/ DlReadMeta
    \/ DlHead
    \/ DlGet
    \/ DlChunk
    \/ DlConnectionLost
    \/ DlFinish

\* One call of download_with_progress; step_3_generate_tiles.py is not run.
InitDownload ==
    /\ InitMain({DefaultZoomLevels}, {"directory"}, {0}, {TRUE}, {TRUE}, {TRUE},
                {"none"}, {}, {"missing"}, {{}})
    /\ dl \in {DlStart(i) : i \in DlInputs}

SpecDownload == InitDownload /\ [][NextDownload]_vars

\* ================================================================ claims
\* The result records of source s, and what they say.
ResultsOf(s) == {i \in 1..Len(all_results) : all_results[i].name = s}
Succeeded(s) == \E i \in ResultsOf(s) : all_results[i].status = "success"
Failed(s) == \E i \in ResultsOf(s) : all_results[i].status = "failed"

\* The sources handed to the pool, and the pool having delivered all results.
PoolTasks == SeqToSet(files_to_process)
PoolDone == pc \in {"cached", "summary", "replace", "move", "exited"}
WorkersDone == pc # "start" /\ \A s \in PoolTasks : w[s].pc = "done"

\* The tile tree of this build: at the output path once moved there, in the
\* temporary directory before.
BuiltTiles == IF out.state = "new" THEN out.tiles ELSE temp.tiles

\* The tile documents of a finished run at the output path.
FinalDocs == IF pc = "exited" /\ out.state = "new" THEN out.tiles ELSE <<>>

\* The importance score of a feature of a tile document.
ImportanceOf(fj) == ImportanceTable[fj.fid]

\* ----------------------------------------------------------------- C1
\* C1: when pool workers of different sources write to the same tile path,
\* the tile document holds, after all workers have finished, every feature
\* that any worker assigned to the tile: no worker's features are lost.
C1_NoAssignedFeatureLost ==
    WorkersDone =>
        \A s \in PoolTasks : Succeeded(s) =>
            \A z \in SeqToSet(env.zoom_levels) :
                \A i \in 1..Len(db[s][z].rows) :
                    LET row == db[s][z].rows[i]
                    IN  row.fj \in SeqToSet(ExistingFeatures(BuiltTiles, <<z, row.x, row.y>>))

\* ----------------------------------------------------------------- C2
\* C2: in every tile document of the final output, merged ones included, the
\* features are in order of importance, highest first.
C2_SortedByImportance ==
    \A key \in DOMAIN FinalDocs :
        LET f == FinalDocs[key].features
        IN  \A i \in 1..Len(f) : \A j \in 1..Len(f) :
                i < j => ImportanceOf(f[i]) >= ImportanceOf(f[j])

\* ----------------------------------------------------------------- C3
\* C3: no tile document of the final output holds the same serialized
\* feature twice, whichever tile of a zoom level it is and merged or not.
C3_NoDuplicateFeature ==
    \A key \in DOMAIN FinalDocs :
        LET f == FinalDocs[key].features
        IN  \A i \in 1..Len(f) : \A j \in 1..Len(f) : i # j => f[i] # f[j]

\* ----------------------------------------------------------------- C4
\* C4: every tile document of the final output carries the "_meta" block
\* with hasCoastline and hasLandFeatures computed from its features, whether
\* it is the first, a middle or the last tile written for its zoom level.
C4_EveryTileHasMeta ==
    \A key \in DOMAIN FinalDocs :
        LET doc == FinalDocs[key]
        IN  /\ doc.meta
            /\ doc.hasCoastline = HasCoastline(doc.features)
            /\ doc.hasLandFeatures = HasLandFeatures(doc.features)

\* ----------------------------------------------------------------- C5
\* C5: every classified feature a source's stream delivered is written to
\* at least one tile, whatever the simplification returns (an empty result
\* falls back to the geometry before simplification).
C5_ClassifiedFeatureInSomeTile ==
    \A s \in PoolTasks :
        (w[s].pc = "done" /\ Succeeded(s)) =>
            \A i \in 1..Len(w[s].read) :
                LET fid == w[s].read[i]
                IN  ~Unclassified(fid) =>
                        \E key \in DOMAIN BuiltTiles :
                            \E k \in 1..Len(BuiltTiles[key].features) :
                                BuiltTiles[key].features[k].fid = fid

\* ----------------------------------------------------------------- C6
\* C6: with at least one source given, a finished run exits with a non-zero
\* code exactly when some source was not processed to completion; when every
\* source succeeded the code is 0.
C6_ExitCodeIffSourceFailed ==
    (pc = "exited" /\ env.nsources >= 1) =>
        (exit_code # 0 <=> \E s \in Given : ~Succeeded(s))

\* ----------------------------------------------------------------- C7
\* What makes the processing of source s raise, from the inputs alone: no
\* bounds where they are needed, a feature of the stream the loop body
\* cannot handle, or a tile path that cannot be written.
ShapelySaid(fid) ==
    [z \in {zz \in CalledTable[fid] : <<fid, zz>> \in DOMAIN shapely} |->
        shapely[<<fid, z>>]]

SourceRaises(s) ==
    LET from_pbf == env.has_pbf[s] /\ env.osmium[s]
    IN  \/ CASE env.db_kind[s] = "cached" -> FALSE
             [] env.db_kind[s] = "cached_no_bounds" -> ~from_pbf
             [] OTHER ->
                   \/ ~from_pbf
                   \/ \E i \in 1..Len(w[s].read) :
                         FeatureRaises(w[s].read[i], env.zoom_levels,
                                       ShapelySaid(w[s].read[i]))
        \/ UnwritableOf(db[s], env.zoom_levels, env.unwritable) # {}

C8_OutputAlwaysComplete ==
    env.output = "previous" =>
        \/ out.state = "previous" /\ out.index
        \/ out.state = "new" /\ out.index

\* ----------------------------------------------------------------- C9
\* A source has no obtainable bounds: osmium returns nothing or the source is
\* no .pbf file, and no database metadata holds bounds either.
BoundsUnobtainable(s) ==
    /\ ~(env.has_pbf[s] /\ env.osmium[s])
    /\ env.db_kind[s] # "cached"

\* C9: a source whose bounds cannot be obtained fails, and no tile of it is
\* written: it is never recorded as a success.
C9_NoBoundsNoSuccess ==
    \A s \in Given : BoundsUnobtainable(s) => ~Succeeded(s)

\* ---------------------------------------------------------------- C10
\* The features read by worker s that cannot be classified or whose geometry
\* is missing.
Unusable(s) ==
    {i \in 1..Len(w[s].read) :
        \/ Unclassified(w[s].read[i])
        \/ Catalog[w[s].read[i]].geometry.type = None}

\* C10: a feature that cannot be classified or has a malformed geometry is
\* skipped and counted in the skipped counter, and the stream goes on: the
\* source does not fail because of it.
C10_UnusableFeatureSkipped ==
    \A s \in Sources :
        /\ w[s].skipped = Cardinality(Unusable(s))
        /\ Len(w[s].read) \in Unusable(s) => ~Failed(s)

\* ---------------------------------------------------------------- C11
\* The tile passes that have ended: of the pool workers, and of main over
\* the cached sources.
PassEnded(s) ==
    \/ s \in PoolTasks /\ w[s].pc = "done" /\ db[s][env.zoom_levels[1]].bounds
    \/ /\ pc \in {"summary", "replace", "move", "exited"}
       /\ \E i \in 1..Len(cached_pbf_files.files) :
              /\ cached_pbf_files.files[i] = s
              /\ i <= cached_pbf_files.done + 1

\* C11: when writing one tile document fails, the pass goes on with the
\* next tile: once a pass over a source's databases has ended, every tile
\* of the pass other than the ones that could not be written is there.
C11_OtherTilesStillWritten ==
    \A s \in Given : PassEnded(s) =>
        \A z \in SeqToSet(env.zoom_levels) :
            \A i \in 1..Len(db[s][z].rows) :
                LET key == <<z, db[s][z].rows[i].x, db[s][z].rows[i].y>>
                IN  key \notin env.unwritable => key \in DOMAIN BuiltTiles

\* ---------------------------------------------------------------- C12
\* A synthesized ocean polygon: a polygon tagged natural=water, water=ocean.
IsOceanPolygon(fj) ==
    LET f == Catalog[fj.fid]
    IN  /\ f.geometry.type \in POLYGON_TYPES
        /\ Get(f.props, "natural") = "water"
        /\ Get(f.props, "water") = "ocean"

\* C12: a final tile document has "_meta".hasCoastline true exactly when it
\* holds a synthesized ocean polygon: the flag implies such a polygon, and a
\* tile without one has the flag false.
C12_CoastlineFlagMeansOcean ==
    \A key \in DOMAIN FinalDocs :
        LET doc == FinalDocs[key]
        IN  doc.hasCoastline =>
                \E i \in 1..Len(doc.features) : IsOceanPolygon(doc.features[i])

\* ---------------------------------------------------------------- C13
\* The coastline features of a tile document.
CoastlinesOf(doc) ==
    {i \in 1..Len(doc.features) :
        Get(Catalog[doc.features[i].fid].props, "natural") = "coastline"}

\* C13: a final tile whose coastline features are exactly one closed
\* clockwise ring (an island) holds exactly one water polygon, the tile
\* rectangle with the island as a hole, and has hasCoastline true.
C13_IslandTileHasWaterPolygon ==
    \A key \in DOMAIN FinalDocs :
        LET doc == FinalDocs[key]
        IN  (/\ Cardinality(CoastlinesOf(doc)) = 1
             /\ \A i \in CoastlinesOf(doc) : doc.features[i].fid \in Islands) =>
                /\ doc.meta /\ doc.hasCoastline
                /\ Cardinality({i \in 1..Len(doc.features) :
                                  IsOceanPolygon(doc.features[i])}) = 1

\* ---------------------------------------------------------------- C14
\* The tags that make a feature a land feature.
LandTags == {"highway", "building", "landuse", "railway", "amenity", "shop"}

CarriesLandTag(fid) ==
    LET props == Catalog[fid].props
    IN  \/ \E k \in LandTags \cap DOMAIN props : props[k] \notin {None, ""}
        \/ /\ "natural" \in DOMAIN props
           /\ props["natural"] \notin {None, "", "coastline", "water"}

\* The tile holds nothing but named place=city points.
OnlyCityLabels(doc) ==
    /\ doc.features # <<>>
    /\ \A i \in 1..Len(doc.features) :
          LET f == Catalog[doc.features[i].fid]
          IN  /\ f.geometry.type = "Point"
              /\ DOMAIN f.props \subseteq {"place", "name", "population"}
              /\ Get(f.props, "place") = "city"

\* C14: in the "_meta" of a tile document, hasLandFeatures is true exactly
\* when a feature of the document's feature list, merged features included,
\* carries a land tag or a natural tag other than coastline and water; a
\* tile of city labels only has hasLandFeatures and hasCoastline false.
C14_LandFlagFromFinalList ==
    \A key \in DOMAIN BuiltTiles :
        LET doc == BuiltTiles[key]
        IN  /\ doc.meta =>
                  (doc.hasLandFeatures <=>
                      \E i \in 1..Len(doc.features) : CarriesLandTag(doc.features[i].fid))
            /\ OnlyCityLabels(doc) => ~doc.hasLandFeatures /\ ~doc.hasCoastline

\* C14, the case: of the final tiles one holds the city label only, one
\* merged from two sources holds a land feature beside other features, and
\* one holds a coastline and no land feature.
C14_LandAndCityTiles ==
    /\ pc = "exited" /\ out.state = "new"
    /\ \E key \in DOMAIN out.tiles : out.tiles[key].meta /\ OnlyCityLabels(out.tiles[key])
    /\ \E key \in DOMAIN out.tiles :
          /\ out.tiles[key].meta /\ out.tiles[key].hasLandFeatures
          /\ Len(out.tiles[key].features) >= 2
    /\ \E key \in DOMAIN out.tiles :
          /\ out.tiles[key].meta /\ out.tiles[key].hasCoastline
          /\ ~out.tiles[key].hasLandFeatures

\* ---------------------------------------------------------------- C15
\* The rows of the zoom databases that hold a coastline line-string.
CoastlineRows(z) ==
    {r \in UNION {SeqToSet(db[s][z].rows) : s \in Sources} :
        /\ Get(Catalog[r.fj.fid].props, "natural") = "coastline"
        /\ Catalog[r.fj.fid].geometry.type = "LineString"}

C16_LargestSourceFirst ==
    \A s \in PoolTasks : \A u \in PoolTasks :
        (w[s].pc # "idle" /\ w[u].pc = "idle") => env.size[s] >= env.size[u]

\* ---------------------------------------------------------------- C17
\* The pairs of catalog features <<a, b>>: a is a road under construction
\* with a non-empty construction=V, b is the otherwise identical feature
\* with highway=V.
ConstructionPairs ==
    {p \in FeatureIds \X FeatureIds :
        LET a == Catalog[p[1]]
            b == Catalog[p[2]]
        IN  /\ Get(a.props, "highway") = "construction"
            /\ Get(a.props, "construction") \notin {None, ""}
            /\ DOMAIN b.props = DOMAIN a.props
            /\ b.props = [a.props EXCEPT !["highway"] = a.props["construction"]]
            /\ b.geometry = a.geometry}

\* The importance scores the zoom databases hold for a feature.
StoredImportance(fid) ==
    {r.importance : r \in {q \in UNION {SeqToSet(db[s][z].rows) :
                                            s \in Sources, z \in AllZooms} :
                               q.fj.fid = fid}}

\* C17: a road with highway=construction and a non-empty construction=V is
\* stored with the importance of the otherwise identical road with
\* highway=V, whatever the class of V and the kind of geometry.
C17_ConstructionRemapped ==
    \A p \in ConstructionPairs :
        \A i \in StoredImportance(p[1]) : \A j \in StoredImportance(p[2]) : i = j

\* C17, the case: a primary road under construction and the same road as
\* highway=primary are both in the databases, with a score above that of a
\* road of no class.
C17_BothRoadsStored ==
    \E p \in ConstructionPairs :
        /\ Get(Catalog[p[1]].props, "construction") \in MAJOR_HIGHWAYS
        /\ StoredImportance(p[1]) # {}
        /\ StoredImportance(p[2]) # {}
        /\ \A i \in StoredImportance(p[1]) : i > 10

\* ---------------------------------------------------------------- C18
\* C18: no row of a zoom database and no feature of a tile document belongs
\* to a feature whose importance is 0.
C18_NoZeroImportanceWritten ==
    /\ \A s \in Sources : \A z \in AllZooms :
            \A i \in 1..Len(db[s][z].rows) : db[s][z].rows[i].importance # 0
    /\ \A k \in DOMAIN BuiltTiles :
            \A i \in 1..Len(BuiltTiles[k].features) :
                ImportanceOf(BuiltTiles[k].features[i]) # 0

\* ---------------------------------------------------------------- C19
\* The tiles (x, y) a zoom database of a source assigns to a feature.
AssignedTiles(s, z, fid) ==
    {<<r.x, r.y>> : r \in {q \in SeqToSet(db[s][z].rows) : q.fj.fid = fid}}

\* The bounds of tile (x, y) of a zoom level intersect the bounding box of
\* a feature: the tile covers the longitudes [x, x + 1) * 360 / 2^z - 180
\* and the Mercator fractions [y, y + 1) / 2^z.
TileTouches(fid, z, x, y) ==
    LET g == Catalog[fid].geometry
    IN  /\ x * 36000 <= (g.maxLon + 18000) * Pow2(z)
        /\ (x + 1) * 36000 > (g.minLon + 18000) * Pow2(z)
        /\ y * Pow2(20 - z) <= MercatorFraction(g.minLat)
        /\ (y + 1) * Pow2(20 - z) > MercatorFraction(g.maxLat)

\* The tiles of a zoom level around the area the catalog lies in
\* (longitude 10.00 to 10.04, latitude 53.54 to 53.58), one tile more on
\* every side.
AreaTiles(z) ==
    (((19000 * Pow2(z)) \div 36000 - 1) .. ((19004 * Pow2(z)) \div 36000 + 1))
    \X ((338749 \div Pow2(20 - z) - 1) .. (338945 \div Pow2(20 - z) + 1))

\* C19: the tiles a feature is assigned to at a zoom level are a Cartesian
\* product of an x-range and a y-range, every one of them intersects the
\* bounding box of the feature, and no tile the bounding box touches is
\* left out.
C19_AssignedTilesAreTouchedTiles ==
    \A s \in Sources : \A z \in AllZooms : \A fid \in FeatureIds :
        LET a == AssignedTiles(s, z, fid)
        IN  a # {} =>
              /\ a = {t[1] : t \in a} \X {t[2] : t \in a}
              /\ \A t \in a : TileTouches(fid, z, t[1], t[2])
              /\ \A t \in AreaTiles(z) : TileTouches(fid, z, t[1], t[2]) => t \in a

\* C19, the case: a feature is assigned to tiles of two columns and three
\* rows of one zoom level.
C19_FeatureInSixTiles ==
    \E s \in Sources : \E z \in AllZooms : \E fid \in env.feature_ids :
        LET a == AssignedTiles(s, z, fid)
        IN  /\ Cardinality({t[1] : t \in a}) = 2
            /\ Cardinality({t[2] : t \in a}) = 3
            /\ Cardinality(a) = 6

\* ---------------------------------------------------------------- C20
\* The feature is a line.
IsLine(fid) == Catalog[fid].geometry.type \in {"LineString", "MultiLineString"}

\* The serialized feature with its whole geometry as simplified for a zoom
\* level, whatever the tile.
WholeJson(fid, z) ==
    FeatureJson(fid, simplify_feature_for_zoom(fid, z,
        IF <<fid, z>> \in DOMAIN shapely THEN shapely[<<fid, z>>] ELSE "kept"))

\* The tiles of the tile tree under construction that hold a feature.
TilesHolding(fid) ==
    {k \in DOMAIN BuiltTiles :
        \E i \in 1..Len(BuiltTiles[k].features) : BuiltTiles[k].features[i].fid = fid}

\* C20: every row of a zoom database and every tile document holds a line
\* feature with the whole geometry of its zoom level, so that the
\* serialized feature is the same in all tiles of the zoom level.
C20_LineWrittenWhole ==
    /\ \A s \in Sources : \A z \in AllZooms : \A i \in 1..Len(db[s][z].rows) :
            LET fj == db[s][z].rows[i].fj
            IN  IsLine(fj.fid) => fj = WholeJson(fj.fid, z)
    /\ \A k \in DOMAIN BuiltTiles : \A i \in 1..Len(BuiltTiles[k].features) :
            LET fj == BuiltTiles[k].features[i]
            IN  IsLine(fj.fid) => fj = WholeJson(fj.fid, k[1])

\* C20, the case: a simplified line is in two tiles of one zoom level.
C20_LineInTwoTiles ==
    \E fid \in env.feature_ids : \E k1 \in TilesHolding(fid) : \E k2 \in TilesHolding(fid) :
        /\ IsLine(fid)
        /\ k1 # k2
        /\ k1[1] = k2[1]
        /\ WholeJson(fid, k1[1]).geom = "simp"

\* ---------------------------------------------------------------- C21
\* The feature_json of the rows a source inserted for tile (x, y) of a zoom
\* level with importance v, in the order of insertion (rowid).
InsertedTies(s, k, v) ==
    LET ties == SelectSeq(db[s][k[1]].rows,
                    LAMBDA r : r.x = k[2] /\ r.y = k[3] /\ r.importance = v)
    IN  [i \in 1..Len(ties) |-> ties[i].fj]

\* The features of importance v of a tile document, in document order.
WrittenTies(doc, v) == SelectSeq(doc.features, LAMBDA fj : ImportanceOf(fj) = v)

\* The importance scores of the catalog.
Scores == {ImportanceTable[fid] : fid \in FeatureIds}

Rewritten ==
    {k \in DOMAIN temp.tiles \cap DOMAIN temp'.tiles : temp'.tiles[k] # temp.tiles[k]}

\* C22: when a step rewrites a tile document, the features the document
\* held before are all kept and stand behind every new feature of
\* importance above 5 and in front of every new feature of importance
\* below 5.
C22_ExistingRankedAsFive ==
    [][\A k \in Rewritten :
        LET old == SeqToSet(temp.tiles[k].features)
            doc == temp'.tiles[k].features
        IN  /\ old \subseteq SeqToSet(doc)
            /\ \A i \in 1..Len(doc) : \A j \in 1..Len(doc) :
                  (doc[i] \in old /\ doc[j] \notin old) =>
                      /\ ImportanceOf(doc[j]) > 5 => j < i
                      /\ ImportanceOf(doc[j]) < 5 => i < j]_vars

\* ---------------------------------------------------------------- C23
\* The sources whose worker is in pass 2 (reading and writing tile documents).
Finalizing == {s \in Sources : w[s].pc \in {"read", "write"}}

\* C23: a step that writes a tile document is taken while no worker is in
\* its streaming pass, and at no time are two workers in pass 2.
C23_SerialFinalization ==
    /\ [][temp'.tiles # temp.tiles => \A s \in Sources : w[s].pc # "stream"]_vars
    /\ [](Cardinality(Finalizing) <= 1)

\* ---------------------------------------------------------------- C24
\* C24: a run over GeoJSON files named on the command line, all of them
\* processed successfully, ends with exit code 0, the index written, the
\* temporary directory moved to the output directory and nothing left
\* behind.
C24_ExplicitRunEndsNormally ==
    (/\ pc = "exited"
     /\ env.mode = "explicit"
     /\ \A s \in Given : Succeeded(s))
        => /\ exit_code = 0
           /\ out.state = "new"
           /\ out.index
           /\ ~temp.exists

\* ---------------------------------------------------------------- C25
\* The processing of source s raises for a reason other than the list of
\* zoom levels: it would raise with every zoom level listed as well.
RaisesWhateverZooms(s) ==
    \/ ~(env.has_pbf[s] /\ env.osmium[s])
    \/ \E i \in 1..Len(w[s].read) :
          FeatureRaises(w[s].read[i], LOD_0_ZOOMS, ShapelySaid(w[s].read[i]))
    \/ UnwritableOf(db[s], env.zoom_levels, env.unwritable) # {}

\* C25: the streaming pass appends rows only for the zoom levels of the
\* list, and a feature due at a zoom level outside the list does not make
\* the source fail.
C25_OtherZoomsLeftOut ==
    \A s \in Sources :
        /\ \A z \in AllZooms \ SeqToSet(env.zoom_levels) :
              /\ w[s].batches[z] = <<>>
              /\ db[s][z].rows = <<>>
        /\ Failed(s) => RaisesWhateverZooms(s)

\* ---------------------------------------------------------------- C26
\* The worker of source s is past the cache check.
PastCacheCheck(s) == s \in PoolTasks /\ w[s].pc # "idle"

\* Every zoom database of source s is the cached one of the earlier run.
AllReused(s) ==
    \A z \in SeqToSet(env.zoom_levels) :
        /\ db[s][z].exists
        /\ db[s][z].rows = StreamRows(CachedInput, z)

\* Every zoom database of source s holds rows of the features read in this
\* run only.
AllRebuilt(s) ==
    \A z \in SeqToSet(env.zoom_levels) :
        /\ db[s][z].exists
        /\ \A i \in 1..Len(db[s][z].rows) :
              db[s][z].rows[i].fj.fid \in SeqToSet(w[s].read)

\* The features of the earlier runs, and those of the tile tree being built.
EarlierFeatures == SeqToSet(CachedInput) \cup SeqToSet(StaleInput)
BuiltFeatures ==
    UNION {{BuiltTiles[k].features[i].fid : i \in 1..Len(BuiltTiles[k].features)} :
                k \in DOMAIN BuiltTiles}

\* C26: past the cache check the zoom databases of a source are all reused
\* or all rebuilt, and the tiles of a run over one source come from cached
\* rows only or from rows of this run only.
C26_AllCachedOrAllRebuilt ==
    /\ \A s \in Sources : PastCacheCheck(s) => AllReused(s) \/ AllRebuilt(s)
    /\ env.nsources = 1 =>
          \/ BuiltFeatures \subseteq SeqToSet(CachedInput)
          \/ BuiltFeatures \cap EarlierFeatures = {}

\* C26, the case: a source found with an incomplete or partly outdated set
\* of databases was rebuilt and written to tiles.
C26_PartialSetRebuilt ==
    \E s \in Given :
        /\ env.db_kind[s] \in {"partial", "stale"}
        /\ Succeeded(s)
        /\ AllRebuilt(s)
        /\ BuiltFeatures # {}

\* ---------------------------------------------------------------- C27
RECURSIVE RowsOfRead(_, _)
\* The rows a zoom level is due from the features read, in reading order.
RowsOfRead(fids, zoom) ==
    IF fids = <<>> THEN <<>>
    ELSE LET fid == fids[Len(fids)]
             mine == IF zoom \in SeqToSet(TargetTable[fid])
                     THEN RowsForZoom(fid, zoom, OutcomeAt(ShapelySaid(fid), zoom))
                     ELSE <<>>
         IN  RowsOfRead(SubSeq(fids, 1, Len(fids) - 1), zoom) \o mine

\* The worker of source s builds the zoom databases anew.
Rebuilding(s) ==
    PastCacheCheck(s) /\ env.db_kind[s] \notin {"cached", "cached_no_bounds"}

\* The streaming pass of source s is under way or was ended by an exception.
StreamInterrupted(s) ==
    \/ w[s].pc = "stream"
    \/ /\ Failed(s)
       /\ \E i \in 1..Len(w[s].read) :
             FeatureRaises(w[s].read[i], env.zoom_levels, ShapelySaid(w[s].read[i]))

\* C27: a zoom database built in this run holds the fingerprint only when
\* the stream has ended and the rows of every feature read are in the
\* databases of all zoom levels; while the stream is under way, or after an
\* exception ended it, no database would be taken as cached by a next run.
C27_FingerprintOnlyWhenComplete ==
    \A s \in Sources : Rebuilding(s) =>
        /\ (\E z \in SeqToSet(env.zoom_levels) : db[s][z].fingerprint) =>
              /\ w[s].pc # "stream"
              /\ \A z \in SeqToSet(env.zoom_levels) :
                    /\ w[s].batches[z] = <<>>
                    /\ db[s][z].rows = RowsOfRead(w[s].read, z)
        /\ StreamInterrupted(s) =>
              /\ ~AllCached(s)
              /\ \A z \in SeqToSet(env.zoom_levels) :
                    open_zoom_db(db[s][z], TRUE) = FreshDb

\* C27, the case: an exception ended the stream after rows had been
\* committed, and a database with rows and without fingerprint is left.
C27_InterruptedAfterCommit ==
    \E s \in Sources :
        /\ Rebuilding(s)
        /\ w[s].pc = "done"
        /\ StreamInterrupted(s)
        /\ \E z \in SeqToSet(env.zoom_levels) :
              db[s][z].rows # <<>> /\ ~db[s][z].fingerprint

\* ---------------------------------------------------------------- C28
\* The rows of a zoom level that the stream of source s produced or, for
\* cached databases, that the database holds.
ProducedRows(s, z) ==
    IF Rebuilding(s) THEN SeqToSet(RowsOfRead(w[s].read, z)) ELSE SeqToSet(db[s][z].rows)

\* The tile paths of the rows of source s.
TilePaths(s) ==
    UNION {{<<z, r.x, r.y>> : r \in ProducedRows(s, z)} : z \in SeqToSet(env.zoom_levels)}

\* C28: when the only source of a run has been processed, every row
\* produced for a zoom level is in the tile document of its (x, y), a tile
\* document holds features of rows of its own (x, y) only, and there is one
\* tile document for each distinct (x, y).
C28_RowsReachTheirTile ==
    (env.nsources = 1 /\ Succeeded(1)) =>
        /\ \A z \in SeqToSet(env.zoom_levels) : \A r \in ProducedRows(1, z) :
              r.fj \in SeqToSet(ExistingFeatures(BuiltTiles, <<z, r.x, r.y>>))
        /\ \A k \in DOMAIN BuiltTiles : \A i \in 1..Len(BuiltTiles[k].features) :
              \E r \in ProducedRows(1, k[1]) :
                  r.x = k[2] /\ r.y = k[3] /\ r.fj = BuiltTiles[k].features[i]
        /\ DOMAIN BuiltTiles = TilePaths(1)

\* C28, the case: the rows of one zoom level went to the database in a full
\* batch and in the remainder after the stream, and its tiles are written.
C28_FullBatchAndRemainder ==
    /\ env.nsources = 1
    /\ Succeeded(1)
    /\ Rebuilding(1)
    /\ Len(w[1].read) = 2
    /\ \E z \in SeqToSet(env.zoom_levels) :
          /\ Len(RowsOfRead(<<w[1].read[1]>>, z)) >= BATCH_SIZE
          /\ Len(RowsOfRead(<<w[1].read[2]>>, z)) \in 1..(BATCH_SIZE - 1)
          /\ Cardinality({k \in DOMAIN BuiltTiles : k[1] = z}) >= 2

\* ---------------------------------------------------------------- C29
\* The index.json of this build: at the output path once moved there, in
\* the temporary directory before.
BuiltIndex == IF out.state = "new" THEN out ELSE temp

\* C29: the bounds of a written index contain the bounds of every source
\* reported a success with bounds, and their minimum is not above their
\* maximum on either axis.
C29_IndexBoundsCoverSources ==
    BuiltIndex.index =>
        /\ BuiltIndex.bounds.minLon <= BuiltIndex.bounds.maxLon
        /\ BuiltIndex.bounds.minLat <= BuiltIndex.bounds.maxLat
        /\ \A i \in 1..Len(all_results) :
              (all_results[i].status = "success" /\ all_results[i].bounds) =>
                  LET b == SourceBounds(all_results[i].name)
                  IN  /\ BuiltIndex.bounds.minLon <= b.minLon
                      /\ b.maxLon <= BuiltIndex.bounds.maxLon
                      /\ BuiltIndex.bounds.minLat <= b.minLat
                      /\ b.maxLat <= BuiltIndex.bounds.maxLat

\* ---------------------------------------------------------------- C30
\* The call found a partial download with bytes in it and a metadata file
\* that cannot be parsed.
CorruptedMeta ==
    /\ dl.pc # "unused"
    /\ dl.input.temp_exists
    /\ dl.input.len > 0
    /\ dl.input.meta \in {"corrupt_first", "corrupt_later"}

\* C30: with a partial download whose metadata cannot be parsed, no Range
\* request is sent and the finished file holds bytes of this download
\* only, starting at byte 0.
C30_CorruptMetaStartsFresh ==
    CorruptedMeta =>
        /\ ~dl.range_sent
        /\ dl.pc = "done" =>
              dl.output = [k \in 1..MaxChunks |-> [from |-> "get", index |-> k]]

====
